---- MODULE Spec2Model ----
(***************************************************************************)
(* git-synchronizer: the mirror engine of cmd/mirror.go.                   *)
(*                                                                         *)
(* MirrorRepositories launches one MirrorRepository goroutine per          *)
(* configured pair; each goroutine clones the source, lists and fetches    *)
(* it, lists the destination, pushes and deletes refs under                *)
(* backoff.Retry, and sends one MirrorStatus on the messages channel.      *)
(*                                                                         *)
(* Go strings are TLA+ strings; Len, SubSeq and \o act on them.  Time is   *)
(* counted in ticks; a worker's clock advances only while it sleeps in a   *)
(* backoff wait.                                                           *)
(***************************************************************************)
EXTENDS Integers, Sequences, FiniteSets, TLC

(***************************************************************************)
(* Bounds of the model.                                                    *)
(***************************************************************************)
\* Most failures (AuthRequired or other errors) the git client returns in a run.
MaxFaults == 2
\* Ticks in time.Minute; one backoff wait lasts one tick.
TicksPerMinute == 1

(***************************************************************************)
(* Program constants.                                                      *)
(***************************************************************************)
refBranchPrefix == "refs/heads/"
refTagPrefix == "refs/tags/"
token == "token"
\* make(chan MirrorStatus, 100)
ChannelCapacity == 100

(***************************************************************************)
(* Strings.                                                                *)
(***************************************************************************)
\* The characters of the model's strings, in byte order.
Alphabet == " *+-./0123456789:ADEFHOabcdefghiklmnopqrstuvwxy"

Ord(c) == CHOOSE i \in 1..Len(Alphabet) : SubSeq(Alphabet, i, i) = c

Min(a, b) == IF a < b THEN a ELSE b

\* Go's s < t on strings: byte-wise lexicographic order (sort.Strings).
StringLess(s, t) ==
    \/ /\ Len(s) < Len(t)
       /\ SubSeq(t, 1, Len(s)) = s
    \/ \E i \in 1..Min(Len(s), Len(t)) :
          /\ SubSeq(s, 1, i - 1) = SubSeq(t, 1, i - 1)
          /\ Ord(SubSeq(s, i, i)) < Ord(SubSeq(t, i, i))

\* strings.HasPrefix
HasPrefix(s, prefix) ==
    /\ Len(s) >= Len(prefix)
    /\ SubSeq(s, 1, Len(prefix)) = prefix

\* strings.TrimPrefix
TrimPrefix(s, prefix) ==
    IF HasPrefix(s, prefix) THEN SubSeq(s, Len(prefix) + 1, Len(s)) ELSE s

\* strings.Contains
Contains(s, substr) ==
    \E i \in 1..(Len(s) - Len(substr) + 1) : SubSeq(s, i, i + Len(substr) - 1) = substr

\* stringInSlice(a, list): a is an element of list.
stringInSlice(a, list) == \E i \in 1..Len(list) : list[i] = a

RECURSIVE InsertSorted(_, _)
InsertSorted(x, sorted) ==
    IF sorted = <<>> THEN <<x>>
    ELSE IF StringLess(Head(sorted), x) \/ Head(sorted) = x
         THEN <<Head(sorted)>> \o InsertSorted(x, Tail(sorted))
         ELSE <<x>> \o sorted

\* The list as it is: sort.Strings left out.
SortStrings_NoSort(list) == list

\* sort.Strings(list)
RECURSIVE SortStrings(_)
SortStrings(list) ==
    IF list = <<>> THEN <<>>
    ELSE InsertSorted(Head(list), SortStrings(Tail(list)))

Range(f) == {f[i] : i \in DOMAIN f}

(***************************************************************************)
(* Errors of the git client (an error value and its Error() text).         *)
(***************************************************************************)
Nil == [id |-> "nil", msg |-> ""]
ErrAuthenticationRequired ==
    [id |-> "ErrAuthenticationRequired", msg |-> "authentication required"]
NoErrAlreadyUpToDate == [id |-> "NoErrAlreadyUpToDate", msg |-> "already up-to-date"]
ErrRemoteNotFound == [id |-> "ErrRemoteNotFound", msg |-> "remote not found"]
ErrRemoteExists == [id |-> "ErrRemoteExists", msg |-> "remote already exists"]
OtherError(m) == [id |-> "error", msg |-> m]

\* Texts of the generic (transient) errors the git client returns.
TransientMessages == {"unexpected EOF"}
TransientErrors == {OtherError(m) : m \in TransientMessages}

(***************************************************************************)
(* Configuration.                                                          *)
(***************************************************************************)
NoAuth == [Method |-> "", TokenName |-> ""]
Repository(url, auth) == [RepositoryURL |-> url, Auth |-> auth]
RepositoryPair(source, destination) == [Source |-> source, Destination |-> destination]

URLs == {"gh/a", "gl/a", "gl/b"}

\* defaults: of the configuration file.
defaultSettings ==
    RepositoryPair(Repository("", [Method |-> token, TokenName |-> "GITHUB_TOKEN"]),
                   Repository("", [Method |-> token, TokenName |-> "GITLAB_TOKEN"]))

Pair(s, d) == RepositoryPair(Repository(s, NoAuth), Repository(d, NoAuth))

\* ignored_errors: of the configuration file.
IgnoreLists ==
    { <<"unexpected EOF", "context deadline exceeded">>,
      <<"authentication", "deadline">> }

\* What a remote repository holds: branch names and tag names.
RefSet(branches, tags) == [branches |-> branches, tags |-> tags]
RefSets ==
    { RefSet({"main", "dev"}, {"v1"}),
      RefSet({"main", "old"}, {"v1", "v0"}),
      RefSet({"main"}, {}) }

\* The runs of the model: a configuration and the contents of the remotes.
\* One pair with every combination of source and destination contents and
\* every ignore list; the empty list; two pairs with one source; two pairs in
\* a chain (the destination of the first is the source of the second); two
\* pairs with one destination.
Scenario(list, a, b, c, ignored) ==
    [repos |-> list,
     remote |-> [u \in URLs |-> CASE u = "gh/a" -> a [] u = "gl/a" -> b [] OTHER -> c],
     ignoredErrors |-> ignored]

OnePairScenarios ==
    {Scenario(<<Pair("gh/a", "gl/a")>>, a, b, RefSet({"main"}, {}), l) :
        a \in RefSets, b \in RefSets, l \in IgnoreLists}

ManyPairLists ==
    { <<>>,
      <<Pair("gh/a", "gl/a"), Pair("gh/a", "gl/b")>>,
      <<Pair("gh/a", "gl/a"), Pair("gl/a", "gl/b")>>,
      <<Pair("gh/a", "gl/b"), Pair("gl/a", "gl/b")>> }

ManyPairScenarios ==
    {Scenario(list, RefSet({"main"}, {}), RefSet({"old"}, {}), RefSet({"main"}, {}),
              <<"unexpected EOF", "context deadline exceeded">>) :
        list \in ManyPairLists}

Scenarios == OnePairScenarios \cup ManyPairScenarios

(***************************************************************************)
(* SetRepositoryAuth, ValidateRepositories.                                *)
(***************************************************************************)
\* SetAuth without the test of Method == "": the default overrides every side.
SetAuth_AlwaysDefault(auth, default) ==
    [Method |-> default.Method,
     TokenName |-> IF default.Method = token THEN default.TokenName
                   ELSE auth.TokenName]

SetAuth(auth, default) ==
    IF auth.Method = ""
    THEN [Method |-> default.Method,
          TokenName |-> IF default.Method = token THEN default.TokenName
                        ELSE auth.TokenName]
    ELSE auth

\* SetRepositoryAuth that assigns the whole default Repository to a side with
\* no Method, its RepositoryURL included.
SetRepositoryAuth_WholeDefault(repositories, defaults) ==
    [i \in 1..Len(repositories) |->
        [Source |-> IF repositories[i].Source.Auth.Method = ""
                    THEN defaults.Source ELSE repositories[i].Source,
         Destination |-> IF repositories[i].Destination.Auth.Method = ""
                         THEN defaults.Destination ELSE repositories[i].Destination]]

SetRepositoryAuth(repositories, defaults) ==
    [i \in 1..Len(repositories) |->
        [Source |-> [repositories[i].Source EXCEPT
                        !.Auth = SetAuth(@, defaults.Source.Auth)],
         Destination |-> [repositories[i].Destination EXCEPT
                        !.Auth = SetAuth(@, defaults.Destination.Auth)]]]

\* strings.Split(s, sep), sep not empty.
RECURSIVE Split(_, _)
Split(s, sep) ==
    IF ~Contains(s, sep) THEN <<s>>
    ELSE LET i == CHOOSE k \in 1..(Len(s) - Len(sep) + 1) :
                      /\ SubSeq(s, k, k + Len(sep) - 1) = sep
                      /\ \A j \in 1..(k - 1) : SubSeq(s, j, j + Len(sep) - 1) # sep
         IN <<SubSeq(s, 1, i - 1)>> \o Split(SubSeq(s, i + Len(sep), Len(s)), sep)

\* sourceURL[len(sourceURL)-1]: the last element of strings.Split(url, "/").
ProjectName(url) == LET parts == Split(url, "/") IN parts[Len(parts)]

\* ValidateRepositories with log.Fatal in place of log.Warn where the project
\* names differ.
ValidateRepositories_FatalOnNameMismatch(repositories) ==
    \E i \in 1..Len(repositories) :
        \/ stringInSlice(repositories[i].Destination.RepositoryURL,
                         [j \in 1..(i - 1) |-> repositories[j].Destination.RepositoryURL])
        \/ ProjectName(repositories[i].Source.RepositoryURL) #
               ProjectName(repositories[i].Destination.RepositoryURL)

\* ValidateRepositories without the log.Fatal.
ValidateRepositories_NoFatal(repositories) == FALSE

\* TRUE when log.Fatal ends the process: a destination URL already seen.
ValidateRepositories(repositories) ==
    \E i \in 1..Len(repositories) :
        stringInSlice(repositories[i].Destination.RepositoryURL,
                      [j \in 1..(i - 1) |-> repositories[j].Destination.RepositoryURL])

\* TRUE when ValidateRepositories logs its warning for pair i: the loop gets
\* to the pair and the project names of its two URLs differ.
Warned(repositories, i) ==
    /\ ~ValidateRepositories(SubSeq(repositories, 1, i))
    /\ ProjectName(repositories[i].Source.RepositoryURL) #
           ProjectName(repositories[i].Destination.RepositoryURL)

(***************************************************************************)
(* GetBranchesAndTagsFromRemote: the loop over refList and the two sorts.  *)
(***************************************************************************)
RECURSIVE PartitionRefs(_, _, _)
PartitionRefs(refList, branchList, tagList) ==
    IF refList = <<>> THEN [branchList |-> branchList, tagList |-> tagList]
    ELSE LET refName == Head(refList) IN
         IF HasPrefix(refName, refBranchPrefix)
         THEN PartitionRefs(Tail(refList),
                            Append(branchList, TrimPrefix(refName, refBranchPrefix)),
                            tagList)
         ELSE IF HasPrefix(refName, refTagPrefix)
         THEN PartitionRefs(Tail(refList), branchList,
                            Append(tagList, TrimPrefix(refName, refTagPrefix)))
         ELSE PartitionRefs(Tail(refList), branchList, tagList)

\* GetBranchesAndTagsFromRemote without the two sorts.
GetBranchesAndTagsFromRemote_Unsorted(refList) == PartitionRefs(refList, <<>>, <<>>)

GetBranchesAndTagsFromRemote(refList) ==
    LET lists == PartitionRefs(refList, <<>>, <<>>) IN
    [branchList |-> SortStrings(lists.branchList),
     tagList |-> SortStrings(lists.tagList)]

\* The reference names a remote advertises.
Advertised(r) ==
    {"HEAD"} \cup {refBranchPrefix \o b : b \in r.branches}
             \cup {refTagPrefix \o t : t \in r.tags}

RECURSIVE SetToSortedSeq(_)
SetToSortedSeq(S) ==
    IF S = {} THEN <<>>
    ELSE LET x == CHOOSE y \in S : \A z \in S : z = y \/ StringLess(y, z)
         IN <<x>> \o SetToSortedSeq(S \ {x})

Reverse(list) == [i \in 1..Len(list) |-> list[Len(list) + 1 - i]]
Rotate(list, k) == [i \in 1..Len(list) |-> list[((i + k - 1) % Len(list)) + 1]]

\* Orders in which remote.List may return the references of r.
Listings(r) ==
    LET asc == SetToSortedSeq(Advertised(r)) IN
    {Rotate(asc, k) : k \in 0..(Len(asc) - 1)}
        \cup {Rotate(Reverse(asc), k) : k \in 0..(Len(asc) - 1)}

(***************************************************************************)
(* State.                                                                  *)
(***************************************************************************)
VARIABLES
    repos,               \* inputRepositories: the configured pairs
    ignoredErrors,       \* ignored_errors of the configuration
    remote,              \* the refs each remote repository holds, by URL
    faults,              \* failures the git client has returned so far
    worker,              \* the MirrorRepository goroutines, by pair index
    messages,            \* the messages channel (buffered)
    pc,                  \* where the main goroutine is
    launched,            \* goroutines started by the launch loop
    receivedResults,
    allErrors,           \* MirrorRepositories' aggregate
    lastCloneEnd,
    totalCloneDuration,
    totalPushDuration,
    exitCode,            \* -1 while the process runs
    test                 \* Test_ProcessError: the errors passed and its allErrors

vars == <<repos, ignoredErrors, remote, faults, worker, messages, pc, launched,
          receivedResults, allErrors, lastCloneEnd, totalCloneDuration,
          totalPushDuration, exitCode, test>>

config == <<repos, ignoredErrors>>
aggregate == <<receivedResults, allErrors, lastCloneEnd, totalCloneDuration,
               totalPushDuration, exitCode>>

(***************************************************************************)
(* ProcessError.                                                           *)
(***************************************************************************)
\* ProcessError that drops an error whose message contains a string of
\* ignoredErrors.
ProcessError_WithIgnoreList(err, activity, url, errors) ==
    IF \/ err = Nil
       \/ err = NoErrAlreadyUpToDate
       \/ \E i \in 1..Len(ignoredErrors) : Contains(err.msg, ignoredErrors[i])
    THEN errors
    ELSE Append(errors, "Error while " \o activity \o url \o ": " \o err.msg)

\* errors is the slice allErrors points to; the result is the slice afterwards.
ProcessError(err, activity, url, errors) ==
    LET e == IF err # Nil /\ err # NoErrAlreadyUpToDate
             THEN "Error while " \o activity \o url \o ": " \o err.msg
             ELSE ""
    IN IF e # "" THEN Append(errors, e) ELSE errors

(***************************************************************************)
(* The retried operations: what each returns to backoff.Retry for the      *)
(* error e of the git client (permanent: wrapped in backoff.Permanent).    *)
(***************************************************************************)
ListRemote(e) ==
    IF e = ErrAuthenticationRequired THEN [err |-> e, permanent |-> TRUE]
    ELSE [err |-> e, permanent |-> FALSE]

\* GitPlainClone without the backoff.Permanent branch.
GitPlainClone_NoPermanent(e) == [err |-> e, permanent |-> FALSE]

GitPlainClone(e) ==
    IF e = ErrAuthenticationRequired THEN [err |-> e, permanent |-> TRUE]
    ELSE [err |-> e, permanent |-> FALSE]

\* GitFetchBranches without the case git.NoErrAlreadyUpToDate.
GitFetchBranches_NoUpToDate(e) ==
    IF e = ErrAuthenticationRequired THEN [err |-> e, permanent |-> TRUE]
    ELSE [err |-> e, permanent |-> FALSE]

GitFetchBranches(e) ==
    CASE e = ErrAuthenticationRequired -> [err |-> e, permanent |-> TRUE]
      [] e = NoErrAlreadyUpToDate -> [err |-> Nil, permanent |-> FALSE]
      [] OTHER -> [err |-> e, permanent |-> FALSE]

PushRefs(e) ==
    IF e = ErrAuthenticationRequired \/ e = NoErrAlreadyUpToDate
    THEN [err |-> e, permanent |-> TRUE]
    ELSE [err |-> e, permanent |-> FALSE]

\* cloneBackoff with MaxElapsedTime = 0: backoff.Retry never gives up.
cloneBackoff_Unlimited == 0 * TicksPerMinute

\* MaxElapsedTime of each backoff, in ticks.
cloneBackoff == 2 * TicksPerMinute
listRemoteBackoff == TicksPerMinute
fetchBranchesBackoff == TicksPerMinute
pushBranchesBackoff == 2 * TicksPerMinute
removeBranchesBackoff == TicksPerMinute
pushTagsBackoff == TicksPerMinute
removeTagsBackoff == TicksPerMinute

\* backoff.Retry after one invocation returned r, elapsed ticks into the retry:
\* TRUE when Retry returns (success, a permanent error, or the next wait of one
\* tick would exceed MaxElapsedTime; MaxElapsedTime 0 never stops), FALSE when
\* it sleeps and invokes the operation again.
RetryReturns(r, elapsed, maxElapsedTime) ==
    \/ r.err = Nil
    \/ r.permanent
    \/ maxElapsedTime # 0 /\ elapsed + 1 > maxElapsedTime

\* time.Time{}: before every instant of the run.
ZeroTime == 0 - 1

\* No unit test runs.
NoTest == [errs |-> <<>>, allErrors |-> <<>>]

\* A goroutine that has not been started.
NotStarted ==
    [pc |-> "NotStarted", failed |-> "", allErrors |-> <<>>, err |-> Nil,
     clientErr |-> Nil, attempts |-> 0, waiting |-> FALSE, elapsed |-> 0,
     maxElapsedTime |-> 0, now |-> 0,
     cloneEnd |-> ZeroTime, cloneDuration |-> 0, pushDuration |-> 0,
     sourceBranchList |-> <<>>, sourceTagList |-> <<>>,
     destinationBranchList |-> <<>>, destinationTagList |-> <<>>,
     idx |-> 0, gitDirectory |-> "none",
     localBranches |-> {}, localTags |-> {}, refSpecs |-> <<>>,
     source |-> "", destination |-> "",
     sourceAuthentication |-> NoAuth, destinationAuthentication |-> NoAuth]

Init ==
    /\ \E s \in Scenarios :
          /\ repos = s.repos
          /\ ignoredErrors = s.ignoredErrors
          /\ remote = s.remote
    /\ faults = 0
    /\ worker = [w \in 1..Len(repos) |-> NotStarted]
    /\ messages = <<>>
    /\ pc = "Run"
    /\ launched = 0
    /\ receivedResults = 0
    /\ allErrors = <<>>
    /\ lastCloneEnd = ZeroTime
    /\ totalCloneDuration = 0
    /\ totalPushDuration = 0
    /\ exitCode = 0 - 1
    /\ test = NoTest

source(w) == repos[w].Source.RepositoryURL
destination(w) == repos[w].Destination.RepositoryURL

(***************************************************************************)
(* The git client.                                                         *)
(***************************************************************************)
Failures == {ErrAuthenticationRequired} \cup TransientErrors

\* What a call of the git client may return: one of the successes ok, or a
\* failure while the run's failures are not used up.
Outcomes(ok) == ok \cup (IF faults < MaxFaults THEN Failures ELSE {})

CountFault(e) == faults' = IF e \in Failures THEN faults + 1 ELSE faults

\* Invoke with one backoff for all operations of the worker: the elapsed time
\* of the operations before counts against the budget.
Invoke_SharedBackoff(self, e, r, maxElapsedTime) ==
    LET elapsed == self.elapsed
        returns == RetryReturns(r, elapsed, maxElapsedTime)
    IN [self EXCEPT
          !.attempts = IF self.waiting THEN @ + 1 ELSE 1,
          !.clientErr = e,
          !.err = r.err,
          !.maxElapsedTime = maxElapsedTime,
          !.waiting = ~returns,
          !.elapsed = IF returns THEN elapsed ELSE elapsed + 1,
          !.now = IF returns THEN @ ELSE @ + 1]

(***************************************************************************)
(* One invocation of a retried operation by worker record self: the git    *)
(* client returned e and the operation returned r.  The result has         *)
(* waiting = TRUE when Retry sleeps one tick before the next invocation,   *)
(* FALSE when Retry returned err.                                          *)
(***************************************************************************)
Invoke(self, e, r, maxElapsedTime) ==
    LET elapsed == IF self.waiting THEN self.elapsed ELSE 0
        returns == RetryReturns(r, elapsed, maxElapsedTime)
    IN [self EXCEPT
          !.attempts = IF self.waiting THEN @ + 1 ELSE 1,
          !.clientErr = e,
          !.err = r.err,
          !.maxElapsedTime = maxElapsedTime,
          !.waiting = ~returns,
          !.elapsed = IF returns THEN elapsed ELSE elapsed + 1,
          !.now = IF returns THEN @ ELSE @ + 1]

\* The refspecs MirrorRepository passes to PushRefs.
PushBranchRefSpec(branch) == "+" \o refBranchPrefix \o branch \o ":" \o refBranchPrefix \o branch
RemoveBranchRefSpec(branch) == ":" \o refBranchPrefix \o branch
PushTagsRefSpec == "+" \o refTagPrefix \o "*:" \o refTagPrefix \o "*"
RemoveTagRefSpec(tag) == ":" \o refTagPrefix \o tag

\* The refspec of a retried push is recorded when its first invocation starts.
Issue(self, refSpec) ==
    IF self.waiting THEN self ELSE [self EXCEPT !.refSpecs = Append(@, refSpec)]

(***************************************************************************)
(* MirrorRepository.                                                       *)
(***************************************************************************)
MirrorStatus(errors, lastEnd, cloneDuration, pushDuration) ==
    [Errors |-> errors, LastCloneEnd |-> lastEnd,
     CloneDuration |-> cloneDuration, PushDuration |-> pushDuration]

\* StatusOf in which a failed worker reports the time it ran as clone duration.
StatusOf_FailedWithDuration(self) ==
    IF self.failed # ""
    THEN MirrorStatus(self.allErrors, self.now, self.now, 0)
    ELSE MirrorStatus(self.allErrors, self.cloneEnd, self.cloneDuration,
                      self.pushDuration)

\* The status a returned worker sent.
StatusOf(self) ==
    IF self.failed # ""
    THEN MirrorStatus(self.allErrors, self.now, 0, 0)
    ELSE MirrorStatus(self.allErrors, self.cloneEnd, self.cloneDuration,
                      self.pushDuration)

\* Fail without the return: the error is recorded and the next stage runs.
Fail_Continues(self, state, activity, url) ==
    [self EXCEPT !.allErrors = ProcessError(self.err, activity, url, @),
                 !.waiting = FALSE,
                 !.pc = CASE state = "Cloning" -> "ListingSource"
                          [] state = "ListingSource" -> "FetchingBranches"
                          [] state = "FetchingBranches" -> "CreatingDestinationRemote"
                          [] OTHER -> "ListingDestination"]

\* ProcessError, send the status, return (the deferred os.RemoveAll is then due).
Fail(self, state, activity, url) ==
    [self EXCEPT !.allErrors = ProcessError(self.err, activity, url, @),
                 !.failed = state,
                 !.pc = "Returned",
                 !.waiting = FALSE]

\* The end of MirrorRepository: pushDuration, send the status, return.
Done(self) ==
    [self EXCEPT !.pushDuration = self.now - self.cloneEnd,
                 !.pc = "Returned"]

\* NextAbsent with the test inverted: if stringInSlice(...) instead of if !stringInSlice(...).
NextAbsent_Inverted(list, other, from) ==
    IF \E i \in from..Len(list) : stringInSlice(list[i], other)
    THEN CHOOSE i \in from..Len(list) :
            /\ stringInSlice(list[i], other)
            /\ \A j \in from..(i - 1) : ~stringInSlice(list[j], other)
    ELSE 0

\* The first index from on of list whose element is not in other; 0 if none.
NextAbsent(list, other, from) ==
    IF \E i \in from..Len(list) : ~stringInSlice(list[i], other)
    THEN CHOOSE i \in from..Len(list) :
            /\ ~stringInSlice(list[i], other)
            /\ \A j \in from..(i - 1) : stringInSlice(list[j], other)
    ELSE 0

\* RemoveTagsFrom without the loop: no tag is removed.
RemoveTagsFrom_NoRemoval(self, from) == Done(self)

\* The loop over destinationTagList, from index from on.
RemoveTagsFrom(self, from) ==
    LET i == NextAbsent(self.destinationTagList, self.sourceTagList, from) IN
    IF i # 0 THEN [self EXCEPT !.pc = "RemovingTags", !.idx = i]
    ELSE Done(self)

\* RemoveBranchesFrom that leaves out the tag push when the source has no tag.
RemoveBranchesFrom_NoTagPushWithoutTags(self, from) ==
    LET i == NextAbsent(self.destinationBranchList, self.sourceBranchList, from) IN
    IF i # 0 THEN [self EXCEPT !.pc = "RemovingBranches", !.idx = i]
    ELSE IF self.sourceTagList = <<>> THEN RemoveTagsFrom(self, 1)
    ELSE [self EXCEPT !.pc = "PushingTags", !.idx = 0]

\* The loop over destinationBranchList, from index from on, then the tag push.
RemoveBranchesFrom(self, from) ==
    LET i == NextAbsent(self.destinationBranchList, self.sourceBranchList, from) IN
    IF i # 0 THEN [self EXCEPT !.pc = "RemovingBranches", !.idx = i]
    ELSE [self EXCEPT !.pc = "PushingTags", !.idx = 0]

\* PushBranchesFrom that returns when the push before it failed.
PushBranchesFrom_ReturnOnError(self, from) ==
    IF from > 1 /\ self.err \notin {Nil, NoErrAlreadyUpToDate} THEN Done(self)
    ELSE IF from <= Len(self.sourceBranchList)
    THEN [self EXCEPT !.pc = "PushingBranches", !.idx = from]
    ELSE RemoveBranchesFrom(self, 1)

\* The loop over sourceBranchList, from index from on.
PushBranchesFrom(self, from) ==
    IF from <= Len(self.sourceBranchList)
    THEN [self EXCEPT !.pc = "PushingBranches", !.idx = from]
    ELSE RemoveBranchesFrom(self, 1)

\* Running in which the workers are cancelled when the launch loop ends.
Running_Cancelled(w) ==
    /\ pc = "Launching"
    /\ w \in 1..launched

Running(w) ==
    /\ pc \in {"Launching", "Receiving"}
    /\ w \in 1..launched

\* Commit in which a return after a failure sends no status.
Commit_NoStatusOnFailure(w, self) ==
    /\ self.pc = "Returned" => Len(messages) < ChannelCapacity
    /\ worker' = [worker EXCEPT ![w] = self]
    /\ messages' = IF self.pc = "Returned" /\ self.failed = ""
                   THEN Append(messages, StatusOf(self))
                   ELSE messages

\* Commit with one allErrors for all goroutines (a package-level variable).
Commit_SharedErrors(w, self) ==
    /\ self.pc = "Returned" => Len(messages) < ChannelCapacity
    /\ worker' = [v \in DOMAIN worker |->
                    IF v = w THEN self
                    ELSE [worker[v] EXCEPT !.allErrors = self.allErrors]]
    /\ messages' = IF self.pc = "Returned" THEN Append(messages, StatusOf(self))
                   ELSE messages

\* The worker's record becomes self; a worker that returned has sent its status.
Commit(w, self) ==
    /\ self.pc = "Returned" => Len(messages) < ChannelCapacity
    /\ worker' = [worker EXCEPT ![w] = self]
    /\ messages' = IF self.pc = "Returned" THEN Append(messages, StatusOf(self))
                   ELSE messages

\* os.MkdirTemp, GetCloneOptions and one invocation of GitPlainClone.
Clone(w) ==
    /\ Running(w)
    /\ worker[w].pc = "Cloning"
    /\ \E e \in Outcomes({Nil}) :
          LET started == [worker[w] EXCEPT !.gitDirectory = "exists"]
              self == Invoke(started, e, GitPlainClone(e), cloneBackoff)
          IN /\ CountFault(e)
             /\ Commit(w, IF self.waiting THEN self
                          ELSE IF self.err # Nil
                          THEN Fail(self, "Cloning", "cloning repository from ", worker[w].source)
                          ELSE [self EXCEPT !.pc = "ListingSource",
                                            !.localTags = remote[worker[w].source].tags])
    /\ UNCHANGED <<config, remote, pc, launched, aggregate, test>>

\* repository.Remote(remoteName) fails in GetBranchesAndTagsFromRemote.
SourceRemoteMissing(w) ==
    /\ Running(w)
    /\ worker[w].pc = "ListingSource"
    /\ ~worker[w].waiting
    /\ faults < MaxFaults
    /\ faults' = faults + 1
    /\ Commit(w, Fail([worker[w] EXCEPT !.clientErr = ErrRemoteNotFound,
                                        !.err = ErrRemoteNotFound, !.attempts = 0],
                      "ListingSource", "getting branches and tags from ", worker[w].source))
    /\ UNCHANGED <<config, remote, pc, launched, aggregate, test>>

\* GetListOptions and one invocation of ListRemote on origin.
ListSource(w) ==
    /\ Running(w)
    /\ worker[w].pc = "ListingSource"
    /\ \E e \in Outcomes({Nil}) :
       \E refList \in IF e = Nil THEN Listings(remote[worker[w].source]) ELSE {<<>>} :
          LET self == Invoke(worker[w], e, ListRemote(e), listRemoteBackoff)
              lists == GetBranchesAndTagsFromRemote(refList)
          IN /\ CountFault(e)
             /\ Commit(w, IF self.waiting THEN self
                          ELSE IF self.err # Nil
                          THEN Fail(self, "ListingSource",
                                    "getting branches and tags from ", worker[w].source)
                          ELSE [self EXCEPT !.pc = "FetchingBranches",
                                            !.sourceBranchList = lists.branchList,
                                            !.sourceTagList = lists.tagList])
    /\ UNCHANGED <<config, remote, pc, launched, aggregate, test>>

\* repository.Remote("origin") fails.
OriginMissing(w) ==
    /\ Running(w)
    /\ worker[w].pc = "FetchingBranches"
    /\ ~worker[w].waiting
    /\ faults < MaxFaults
    /\ faults' = faults + 1
    /\ Commit(w, Fail([worker[w] EXCEPT !.clientErr = ErrRemoteNotFound,
                                        !.err = ErrRemoteNotFound, !.attempts = 0],
                      "FetchingBranches", "getting source remote for ", worker[w].source))
    /\ UNCHANGED <<config, remote, pc, launched, aggregate, test>>

\* One invocation of GitFetchBranches.
FetchBranches(w) ==
    /\ Running(w)
    /\ worker[w].pc = "FetchingBranches"
    /\ \E e \in Outcomes(IF Cardinality(remote[worker[w].source].branches) <= 1
                         THEN {NoErrAlreadyUpToDate} ELSE {Nil}) :
          LET self == Invoke(worker[w], e, GitFetchBranches(e), fetchBranchesBackoff)
          IN /\ CountFault(e)
             /\ Commit(w, IF self.waiting THEN self
                          ELSE IF self.err # Nil
                          THEN Fail(self, "FetchingBranches", "fetching branches from ",
                                    worker[w].source)
                          ELSE [self EXCEPT !.pc = "CreatingDestinationRemote",
                                            !.localBranches = remote[worker[w].source].branches,
                                            !.cloneDuration = self.now,
                                            !.cloneEnd = self.now])
    /\ UNCHANGED <<config, remote, pc, launched, aggregate, test>>

\* repository.CreateRemote for the destination.
CreateRemote(w) ==
    /\ Running(w)
    /\ worker[w].pc = "CreatingDestinationRemote"
    /\ \E e \in {Nil} \cup (IF faults < MaxFaults THEN {ErrRemoteExists} ELSE {}) :
          LET self == [worker[w] EXCEPT !.clientErr = e, !.err = e, !.attempts = 0]
          IN /\ faults' = IF e = Nil THEN faults ELSE faults + 1
             /\ Commit(w, IF e # Nil
                          THEN Fail(self, "CreatingDestinationRemote",
                                    "creating remote for ", worker[w].destination)
                          ELSE [self EXCEPT !.pc = "ListingDestination"])
    /\ UNCHANGED <<config, remote, pc, launched, aggregate, test>>

\* ListDestination with the failure handled like the source's: send and return.
ListDestination_Terminal(w) ==
    /\ Running(w)
    /\ worker[w].pc = "ListingDestination"
    /\ \E e \in Outcomes({Nil}) :
       \E refList \in IF e = Nil THEN Listings(remote[worker[w].destination]) ELSE {<<>>} :
          LET self == Invoke(worker[w], e, ListRemote(e), listRemoteBackoff)
              lists == GetBranchesAndTagsFromRemote(refList)
          IN /\ CountFault(e)
             /\ Commit(w, IF self.waiting THEN self
                          ELSE IF self.err # Nil
                          THEN Fail(self, "ListingDestination",
                                    "getting branches and tags from ", worker[w].destination)
                          ELSE PushBranchesFrom(
                                 [self EXCEPT !.destinationBranchList = lists.branchList,
                                              !.destinationTagList = lists.tagList], 1))
    /\ UNCHANGED <<config, remote, pc, launched, aggregate, test>>

\* ListDestination in which a failed listing is not recorded as an error.
ListDestination_ErrorDropped(w) ==
    /\ Running(w)
    /\ worker[w].pc = "ListingDestination"
    /\ \E e \in Outcomes({Nil}) :
       \E refList \in IF e = Nil THEN Listings(remote[worker[w].destination]) ELSE {<<>>} :
          LET self == Invoke(worker[w], e, ListRemote(e), listRemoteBackoff)
              lists == GetBranchesAndTagsFromRemote(refList)
          IN /\ CountFault(e)
             /\ Commit(w, IF self.waiting THEN self
                          ELSE IF self.err # Nil
                          THEN PushBranchesFrom(self, 1)
                          ELSE PushBranchesFrom(
                                 [self EXCEPT !.destinationBranchList = lists.branchList,
                                              !.destinationTagList = lists.tagList], 1))
    /\ UNCHANGED <<config, remote, pc, launched, aggregate, test>>

\* GetDestinationAuth and one invocation of ListRemote on destination.
ListDestination(w) ==
    /\ Running(w)
    /\ worker[w].pc = "ListingDestination"
    /\ \E e \in Outcomes({Nil}) :
       \E refList \in IF e = Nil THEN Listings(remote[worker[w].destination]) ELSE {<<>>} :
          LET self == Invoke(worker[w], e, ListRemote(e), listRemoteBackoff)
              lists == GetBranchesAndTagsFromRemote(refList)
          IN /\ CountFault(e)
             /\ Commit(w, IF self.waiting THEN self
                          ELSE IF self.err # Nil
                          THEN PushBranchesFrom(
                                 [self EXCEPT !.allErrors =
                                    ProcessError(self.err,
                                                 "getting branches and tags from ",
                                                 worker[w].destination, @)], 1)
                          ELSE PushBranchesFrom(
                                 [self EXCEPT !.destinationBranchList = lists.branchList,
                                              !.destinationTagList = lists.tagList], 1))
    /\ UNCHANGED <<config, remote, pc, launched, aggregate, test>>

\* repository.Remote("destination") fails in GetBranchesAndTagsFromRemote.
DestinationRemoteMissing(w) ==
    /\ Running(w)
    /\ worker[w].pc = "ListingDestination"
    /\ ~worker[w].waiting
    /\ faults < MaxFaults
    /\ faults' = faults + 1
    /\ LET self == [worker[w] EXCEPT !.clientErr = ErrRemoteNotFound,
                                        !.err = ErrRemoteNotFound, !.attempts = 0]
       IN Commit(w, PushBranchesFrom(
                      [self EXCEPT !.allErrors =
                         ProcessError(self.err, "getting branches and tags from ",
                                      worker[w].destination, @)], 1))
    /\ UNCHANGED <<config, remote, pc, launched, aggregate, test>>

\* The remote at url after a successful push of refSpec kind for name.
Pushed(url, kind, names) ==
    [remote EXCEPT ![url] =
        CASE kind = "branch" -> [@ EXCEPT !.branches = @ \cup names]
          [] kind = "tags" -> [@ EXCEPT !.tags = @ \cup names]
          [] kind = "removeBranch" -> [@ EXCEPT !.branches = @ \ names]
          [] kind = "removeTag" -> [@ EXCEPT !.tags = @ \ names]]

\* One invocation of PushRefs for sourceBranchList[idx].
PushBranch(w) ==
    /\ Running(w)
    /\ worker[w].pc = "PushingBranches"
    /\ LET branch == worker[w].sourceBranchList[worker[w].idx]
           refSpec == PushBranchRefSpec(branch)
           ok == IF branch \notin worker[w].localBranches THEN {}
                 ELSE IF branch \in remote[worker[w].destination].branches
                 THEN {Nil, NoErrAlreadyUpToDate}
                 ELSE {Nil}
           missing == IF branch \notin worker[w].localBranches
                      THEN {OtherError("reference not found")} ELSE {}
       IN \E e \in Outcomes(ok) \cup missing :
            LET self == Invoke(Issue(worker[w], refSpec), e, PushRefs(e), pushBranchesBackoff)
            IN /\ CountFault(e)
               /\ remote' = IF e = Nil THEN Pushed(worker[w].destination, "branch", {branch})
                            ELSE remote
               /\ Commit(w, IF self.waiting THEN self
                            ELSE PushBranchesFrom(
                                   [self EXCEPT !.allErrors =
                                      ProcessError(self.err,
                                                   "pushing branch " \o branch \o " to ",
                                                   worker[w].destination, @)],
                                   self.idx + 1))
    /\ UNCHANGED <<config, pc, launched, aggregate, test>>

\* One invocation of PushRefs deleting destinationBranchList[idx].
RemoveBranch(w) ==
    /\ Running(w)
    /\ worker[w].pc = "RemovingBranches"
    /\ LET branch == worker[w].destinationBranchList[worker[w].idx]
           refSpec == RemoveBranchRefSpec(branch)
           ok == IF branch \in remote[worker[w].destination].branches
                 THEN {Nil} ELSE {NoErrAlreadyUpToDate}
       IN \E e \in Outcomes(ok) :
            LET self == Invoke(Issue(worker[w], refSpec), e, PushRefs(e), removeBranchesBackoff)
            IN /\ CountFault(e)
               /\ remote' = IF e = Nil
                            THEN Pushed(worker[w].destination, "removeBranch", {branch})
                            ELSE remote
               /\ Commit(w, IF self.waiting THEN self
                            ELSE RemoveBranchesFrom(
                                   [self EXCEPT !.allErrors =
                                      ProcessError(self.err,
                                                   "removing branch " \o branch \o " from ",
                                                   worker[w].destination, @)],
                                   self.idx + 1))
    /\ UNCHANGED <<config, pc, launched, aggregate, test>>

\* One invocation of PushRefs for the wildcard tag refspec.
PushTags(w) ==
    /\ Running(w)
    /\ worker[w].pc = "PushingTags"
    /\ LET refSpec == PushTagsRefSpec
           ok == IF worker[w].localTags = {} THEN {NoErrAlreadyUpToDate}
                 ELSE IF worker[w].localTags \subseteq remote[worker[w].destination].tags
                 THEN {Nil, NoErrAlreadyUpToDate}
                 ELSE {Nil}
       IN \E e \in Outcomes(ok) :
            LET self == Invoke(Issue(worker[w], refSpec), e, PushRefs(e), pushTagsBackoff)
            IN /\ CountFault(e)
               /\ remote' = IF e = Nil
                            THEN Pushed(worker[w].destination, "tags", worker[w].localTags)
                            ELSE remote
               /\ Commit(w, IF self.waiting THEN self
                            ELSE RemoveTagsFrom(
                                   [self EXCEPT !.allErrors =
                                      ProcessError(self.err, "pushing all tags to ",
                                                   worker[w].destination, @)],
                                   1))
    /\ UNCHANGED <<config, pc, launched, aggregate, test>>

\* One invocation of PushRefs deleting destinationTagList[idx].
RemoveTag(w) ==
    /\ Running(w)
    /\ worker[w].pc = "RemovingTags"
    /\ LET tag == worker[w].destinationTagList[worker[w].idx]
           refSpec == RemoveTagRefSpec(tag)
           ok == IF tag \in remote[worker[w].destination].tags
                 THEN {Nil} ELSE {NoErrAlreadyUpToDate}
       IN \E e \in Outcomes(ok) :
            LET self == Invoke(Issue(worker[w], refSpec), e, PushRefs(e), removeTagsBackoff)
            IN /\ CountFault(e)
               /\ remote' = IF e = Nil THEN Pushed(worker[w].destination, "removeTag", {tag})
                            ELSE remote
               /\ Commit(w, IF self.waiting THEN self
                            ELSE RemoveTagsFrom(
                                   [self EXCEPT !.allErrors =
                                      ProcessError(self.err,
                                                   "removing tag " \o tag \o " from ",
                                                   worker[w].destination, @)],
                                   self.idx + 1))
    /\ UNCHANGED <<config, pc, launched, aggregate, test>>

\* defer os.RemoveAll(gitDirectory): runs in the worker's goroutine after the
\* status was sent, while the process lives.
RemoveAll(w) ==
    /\ Running(w)
    /\ worker[w].pc = "Returned"
    /\ worker[w].gitDirectory = "exists"
    /\ worker' = [worker EXCEPT ![w].gitDirectory = "removed"]
    /\ UNCHANGED <<config, remote, faults, messages, pc, launched, aggregate, test>>

MirrorRepository(w) ==
    \/ Clone(w)
    \/ SourceRemoteMissing(w)
    \/ ListSource(w)
    \/ OriginMissing(w)
    \/ FetchBranches(w)
    \/ CreateRemote(w)
    \/ DestinationRemoteMissing(w)
    \/ ListDestination(w)
    \/ PushBranch(w)
    \/ RemoveBranch(w)
    \/ PushTags(w)
    \/ RemoveTag(w)
    \/ RemoveAll(w)

(***************************************************************************)
(* The main goroutine: the root command's Run, then MirrorRepositories.    *)
(***************************************************************************)
\* SetRepositoryAuth and ValidateRepositories; log.Fatal exits with code 1.
Run ==
    /\ pc = "Run"
    /\ repos' = SetRepositoryAuth(repos, defaultSettings)
    /\ IF ValidateRepositories(repos')
       THEN pc' = "Fatal" /\ exitCode' = 1
       ELSE /\ pc' = IF Len(repos) = 0 THEN "Receiving" ELSE "Launching"
            /\ UNCHANGED exitCode
    /\ UNCHANGED <<ignoredErrors, remote, faults, worker, messages, launched,
                   receivedResults, allErrors, lastCloneEnd, totalCloneDuration,
                   totalPushDuration, test>>

\* ExitCode without the test of len(allErrors).
ExitCode_AlwaysZero(errors) == 0

\* The end of MirrorRepositories: os.Exit(1) when errors were aggregated.
ExitCode(errors) == IF Len(errors) > 0 THEN 1 ELSE 0

\* The arguments of go MirrorRepository(...) for pair repository.
Arguments(self, repository) ==
    [self EXCEPT !.source = repository.Source.RepositoryURL,
                 !.destination = repository.Destination.RepositoryURL,
                 !.sourceAuthentication = repository.Source.Auth,
                 !.destinationAuthentication = repository.Destination.Auth]

\* Go that starts every goroutine with the arguments of the first pair.
Go_FirstPair ==
    /\ pc = "Launching"
    /\ launched' = launched + 1
    /\ worker' = [worker EXCEPT ![launched + 1] =
                     Arguments([@ EXCEPT !.pc = "Cloning"], repos[1])]
    /\ pc' = IF launched + 1 = Len(repos) THEN "Receiving" ELSE "Launching"
    /\ UNCHANGED <<config, remote, faults, messages, aggregate, test>>

\* go MirrorRepository(...) for the next pair.
Go ==
    /\ pc = "Launching"
    /\ launched' = launched + 1
    /\ worker' = [worker EXCEPT ![launched + 1] =
                     Arguments([@ EXCEPT !.pc = "Cloning"], repos[launched + 1])]
    /\ pc' = IF launched + 1 = Len(repos) THEN "Receiving" ELSE "Launching"
    /\ UNCHANGED <<config, remote, faults, messages, aggregate, test>>

\* Receive that leaves the loop as soon as an error has been aggregated.
Receive_ExitsOnError ==
    /\ pc = "Receiving"
    /\ messages # <<>>
    /\ LET msg == Head(messages) IN
       /\ messages' = Tail(messages)
       /\ receivedResults' = receivedResults + 1
       /\ allErrors' = allErrors \o msg.Errors
       /\ lastCloneEnd' = IF lastCloneEnd < msg.LastCloneEnd THEN msg.LastCloneEnd
                          ELSE lastCloneEnd
       /\ totalCloneDuration' = totalCloneDuration + msg.CloneDuration
       /\ totalPushDuration' = totalPushDuration + msg.PushDuration
       /\ IF receivedResults' = Len(repos) \/ Len(allErrors') > 0
          THEN /\ pc' = "Exited"
               /\ exitCode' = ExitCode(allErrors')
          ELSE UNCHANGED <<pc, exitCode>>
    /\ UNCHANGED <<config, remote, faults, worker, launched, test>>

\* Receive without the test lastCloneEnd.Before(msg.LastCloneEnd).
Receive_LatestReceived ==
    /\ pc = "Receiving"
    /\ messages # <<>>
    /\ LET msg == Head(messages) IN
       /\ messages' = Tail(messages)
       /\ receivedResults' = receivedResults + 1
       /\ allErrors' = allErrors \o msg.Errors
       /\ lastCloneEnd' = msg.LastCloneEnd
       /\ totalCloneDuration' = totalCloneDuration + msg.CloneDuration
       /\ totalPushDuration' = totalPushDuration + msg.PushDuration
       /\ IF receivedResults' = Len(repos)
          THEN /\ pc' = "Exited"
               /\ exitCode' = ExitCode(allErrors')
          ELSE UNCHANGED <<pc, exitCode>>
    /\ UNCHANGED <<config, remote, faults, worker, launched, test>>

\* case msg := <-messages, and after the last status the verdict.
Receive ==
    /\ pc = "Receiving"
    /\ messages # <<>>
    /\ LET msg == Head(messages) IN
       /\ messages' = Tail(messages)
       /\ receivedResults' = receivedResults + 1
       /\ allErrors' = allErrors \o msg.Errors
       /\ lastCloneEnd' = IF lastCloneEnd < msg.LastCloneEnd THEN msg.LastCloneEnd
                          ELSE lastCloneEnd
       /\ totalCloneDuration' = totalCloneDuration + msg.CloneDuration
       /\ totalPushDuration' = totalPushDuration + msg.PushDuration
       /\ IF receivedResults' = Len(repos)
          THEN /\ pc' = "Exited"
               /\ exitCode' = ExitCode(allErrors')
          ELSE UNCHANGED <<pc, exitCode>>
    /\ UNCHANGED <<config, remote, faults, worker, launched, test>>

\* default: time.Sleep(time.Second)
Sleep ==
    /\ pc = "Receiving"
    /\ messages = <<>>
    /\ UNCHANGED vars

MirrorRepositories == Go \/ Receive \/ Sleep

Next ==
    \/ Run
    \/ Go
    \/ Receive
    \/ Sleep
    \/ \E w \in 1..Len(repos) : Clone(w)
    \/ \E w \in 1..Len(repos) : SourceRemoteMissing(w)
    \/ \E w \in 1..Len(repos) : ListSource(w)
    \/ \E w \in 1..Len(repos) : OriginMissing(w)
    \/ \E w \in 1..Len(repos) : FetchBranches(w)
    \/ \E w \in 1..Len(repos) : CreateRemote(w)
    \/ \E w \in 1..Len(repos) : DestinationRemoteMissing(w)
    \/ \E w \in 1..Len(repos) : ListDestination(w)
    \/ \E w \in 1..Len(repos) : PushBranch(w)
    \/ \E w \in 1..Len(repos) : RemoveBranch(w)
    \/ \E w \in 1..Len(repos) : PushTags(w)
    \/ \E w \in 1..Len(repos) : RemoveTag(w)
    \/ \E w \in 1..Len(repos) : RemoveAll(w)

Spec == Init /\ [][Next]_vars

(***************************************************************************)
(* Test_ProcessError: ProcessError called on errors in turn.               *)
(***************************************************************************)
\* Most calls of ProcessError in a run of the test.
MaxCalls == 5

\* ignoredErrors and err1..err5 of Test_ProcessError.
TestIgnoredErrors == <<"ignored error 1", "ignored error 2">>
TestErrors ==
    <<"ignored warning 1", "1 ignored error 3", "1 ignored error 1 2 3",
      "2 ignored error 2 3 4", "3 ignored error 3 4 5">>

InitProcessError ==
    /\ repos = <<>>
    /\ ignoredErrors \in {TestIgnoredErrors, Reverse(TestIgnoredErrors)}
    /\ remote = [u \in URLs |-> RefSet({"main"}, {})]
    /\ faults = 0
    /\ worker = <<>>
    /\ messages = <<>>
    /\ pc = "Test_ProcessError"
    /\ launched = 0
    /\ receivedResults = 0
    /\ allErrors = <<>>
    /\ lastCloneEnd = ZeroTime
    /\ totalCloneDuration = 0
    /\ totalPushDuration = 0
    /\ exitCode = 0 - 1
    /\ test = NoTest

\* ProcessError(err, "activity ", "https://example.com", &allErrors)
CallProcessError ==
    /\ pc = "Test_ProcessError"
    /\ Len(test.errs) < MaxCalls
    /\ \E err \in {Nil} \cup {OtherError(m) : m \in Range(TestErrors)} :
          test' = [errs |-> Append(test.errs, err),
                   allErrors |-> ProcessError(err, "activity ", "https://example.com",
                                              test.allErrors)]
    /\ UNCHANGED <<repos, ignoredErrors, remote, faults, worker, messages, pc, launched,
                   receivedResults, allErrors, lastCloneEnd, totalCloneDuration,
                   totalPushDuration, exitCode>>

SpecProcessError == InitProcessError /\ [][CallProcessError]_vars

(***************************************************************************)
(* Properties.                                                             *)
(***************************************************************************)
WorkerIds == 1..Len(repos)

Last(list) == list[Len(list)]

\* strings.HasSuffix
HasSuffix(s, suffix) ==
    /\ Len(s) >= Len(suffix)
    /\ SubSeq(s, Len(s) - Len(suffix) + 1, Len(s)) = suffix

\* No other pair writes to the source or the destination of pair w.
Undisturbed(w) ==
    /\ source(w) # destination(w)
    /\ \A v \in WorkerIds \ {w} : destination(v) \notin {source(w), destination(w)}

\* MirrorRepository ran to its end (no terminal failure).
ReachedDone(w) == worker[w].pc = "Returned" /\ worker[w].failed = ""

\* C1: when a worker whose operations all succeeded (no error recorded) has
\* reached Done, and no other pair writes to its source or destination, the
\* destination holds exactly the branches and the tags of the source.
C1_DestinationEqualsSource ==
    \A w \in WorkerIds :
        (ReachedDone(w) /\ worker[w].allErrors = <<>> /\ Undisturbed(w))
            => remote[destination(w)] = remote[source(w)]

C1_Witness ==
    \E w \in WorkerIds :
        /\ ReachedDone(w) /\ worker[w].allErrors = <<>> /\ Undisturbed(w)
        /\ stringInSlice(PushBranchRefSpec("dev"), worker[w].refSpecs)
        /\ stringInSlice(RemoveBranchRefSpec("old"), worker[w].refSpecs)
        /\ stringInSlice(RemoveTagRefSpec("v0"), worker[w].refSpecs)
        /\ remote[destination(w)] = RefSet({"main", "dev"}, {"v1"})

\* C2: a worker that reached Done issued, each once, a push for every branch
\* of the source list, the tag push, a delete for every branch of the
\* destination list that is not in the source list and a delete for every tag
\* of the destination list that is not in the source list, and nothing else;
\* the source list is the source's ref set, and no delete refspec is ever
\* issued for a ref the source holds.
C2_PushAndDeleteSets ==
    \A w \in WorkerIds :
        LET self == worker[w]
            A == RefSet(Range(self.sourceBranchList), Range(self.sourceTagList))
            B == RefSet(Range(self.destinationBranchList),
                        Range(self.destinationTagList))
            plan == {PushBranchRefSpec(b) : b \in A.branches}
                      \cup {PushTagsRefSpec}
                      \cup {RemoveBranchRefSpec(b) : b \in B.branches \ A.branches}
                      \cup {RemoveTagRefSpec(t) : t \in B.tags \ A.tags}
        IN /\ ReachedDone(w) =>
                /\ Range(self.refSpecs) = plan
                /\ Len(self.refSpecs) = Cardinality(plan)
           /\ (Undisturbed(w) /\ self.sourceBranchList # <<>>) =>
                A = remote[source(w)]
           /\ Undisturbed(w) =>
                /\ \A b \in remote[source(w)].branches :
                      ~stringInSlice(RemoveBranchRefSpec(b), self.refSpecs)
                /\ \A t \in remote[source(w)].tags :
                      ~stringInSlice(RemoveTagRefSpec(t), self.refSpecs)

\* Source {main, dev}/{v1}, destination {main, old}/{v1, v0}.
C2_Witness ==
    \E w \in WorkerIds :
        /\ ReachedDone(w)
        /\ worker[w].destinationBranchList = <<"main", "old">>
        /\ worker[w].destinationTagList = <<"v0", "v1">>
        /\ worker[w].refSpecs =
              << "+refs/heads/dev:refs/heads/dev", "+refs/heads/main:refs/heads/main",
                 ":refs/heads/old", "+refs/tags/*:refs/tags/*", ":refs/tags/v0" >>

Ignored(m) == \E i \in 1..Len(ignoredErrors) : Contains(m, ignoredErrors[i])

\* entry of an error list renders an error, other than the authentication
\* error, whose message is Ignored.
IgnoredEntry(entry) ==
    \E m \in TransientMessages \cup Range(TestErrors) \cup
             {ErrRemoteNotFound.msg, ErrRemoteExists.msg, "reference not found"} :
        HasSuffix(entry, ": " \o m) /\ Ignored(m)

\* C4: (as the specification states it) no entry of a worker's error list and
\* no entry of the aggregate renders an error whose message contains a string
\* of the ignore list, so a run in which every recorded failure is of that
\* kind exits with 0.
C4_IgnoredNeverRecorded ==
    /\ \A w \in WorkerIds : \A i \in 1..Len(worker[w].allErrors) :
          ~IgnoredEntry(worker[w].allErrors[i])
    /\ \A i \in 1..Len(allErrors) : ~IgnoredEntry(allErrors[i])
    /\ (/\ pc = "Exited"
        /\ \A w \in WorkerIds :
              worker[w].err \in {Nil, NoErrAlreadyUpToDate} \/ Ignored(worker[w].err.msg)
        /\ \A i \in 1..Len(allErrors) : IgnoredEntry(allErrors[i]))
       => exitCode = 0

\* What Test_ProcessError expects allErrors to be after the calls on errs: the
\* entries of the errors that contain no string of ignoredErrors, in call order.
RECURSIVE ExpectedErrors(_)
ExpectedErrors(errs) ==
    IF errs = <<>> THEN <<>>
    ELSE LET rest == ExpectedErrors(SubSeq(errs, 1, Len(errs) - 1))
             err == Last(errs)
         IN IF err = Nil \/ Ignored(err.msg) THEN rest
            ELSE Append(rest, "Error while activity https://example.com: " \o err.msg)

\* C5: (as the specification states it) after any calls of ProcessError the
\* error list holds, in call order, the entries of exactly the errors whose
\* message contains no string of the ignore list, whatever the order of the
\* ignore list.
C5_ClassifiesByIgnoreList ==
    pc = "Test_ProcessError" => test.allErrors = ExpectedErrors(test.errs)

\* C6: whenever an invocation of a retried operation ends with the git client
\* returning ErrAuthenticationRequired, backoff.Retry does not invoke the
\* operation again (an operation that first returns it was invoked once) and
\* the error Retry returns is the authentication error.
C6_AuthNotRetried ==
    [][\A w \in WorkerIds :
          (/\ worker[w].pc # "Returned"
           /\ worker'[w] # worker[w]
           /\ worker'[w].clientErr = ErrAuthenticationRequired)
          => /\ ~worker'[w].waiting
             /\ worker'[w].err = ErrAuthenticationRequired
             /\ worker'[w].attempts = (IF worker[w].waiting
                                       THEN worker[w].attempts + 1 ELSE 1)
             /\ worker'[w].allErrors # <<>>
             /\ HasSuffix(Last(worker'[w].allErrors), ": authentication required")]_vars

\* The clone was invoked once, returned authentication required, and failed.
C6_Witness ==
    \E w \in WorkerIds :
        /\ worker[w].failed = "Cloning"
        /\ worker[w].err = ErrAuthenticationRequired
        /\ worker[w].attempts = 1

\* C7: a retry invokes its operation at most MaxElapsedTime + 1 times (one
\* tick per wait), and when it gave up on a transient error the operation was
\* invoked more than once, the next wait would have exceeded MaxElapsedTime,
\* and the error recorded is the last one the operation returned (transient:
\* any error that is neither the authentication error nor already up to date).
C7_TransientRetriedUntilBudget ==
    \A w \in WorkerIds :
        LET self == worker[w]
        IN /\ self.attempts > 0 => self.attempts <= self.maxElapsedTime + 1
           /\ self.waiting => /\ self.clientErr.id = "error"
                              /\ self.elapsed <= self.maxElapsedTime
           /\ (~self.waiting /\ self.err.id = "error") =>
                /\ self.attempts > 1
                /\ self.elapsed + 1 > self.maxElapsedTime
                /\ self.err = self.clientErr
                /\ self.allErrors # <<>>
                /\ HasSuffix(Last(self.allErrors), ": " \o self.err.msg)

\* Listing the source gave up after two invocations that returned unexpected EOF.
C7_Witness ==
    \E w \in WorkerIds :
        /\ worker[w].failed = "ListingSource"
        /\ worker[w].attempts = 2
        /\ worker[w].err = OtherError("unexpected EOF")
        /\ worker[w].pc = "Returned"

\* C8: an invocation of fetch or push that ends with NoErrAlreadyUpToDate is
\* the last of its retry, adds nothing to the worker's error list and does not
\* make the worker fail.
C8_UpToDateIsSuccess ==
    [][\A w \in WorkerIds :
          (/\ worker[w].pc # "Returned"
           /\ worker'[w] # worker[w]
           /\ worker'[w].clientErr = NoErrAlreadyUpToDate)
          => /\ ~worker'[w].waiting
             /\ worker'[w].attempts = (IF worker[w].waiting
                                       THEN worker[w].attempts + 1 ELSE 1)
             /\ worker'[w].allErrors = worker[w].allErrors
             /\ worker'[w].failed = ""
             /\ worker[w].pc = "FetchingBranches"
                   => worker'[w].pc = "CreatingDestinationRemote"]_vars

\* The fetch was already up to date and the worker went on.
C8_Witness ==
    \E w \in WorkerIds :
        /\ worker[w].pc = "CreatingDestinationRemote"
        /\ worker[w].clientErr = NoErrAlreadyUpToDate
        /\ worker[w].attempts = 1
        /\ worker[w].allErrors = <<>>

TerminalStages ==
    {"Cloning", "ListingSource", "FetchingBranches", "CreatingDestinationRemote"}

\* C10: a step in which one of the terminal stages fails makes the worker
\* return, having listed no destination and issued no refspec, and leaves every
\* remote as it was; a returned worker takes no further step but the deferred
\* removal of its directory.
C10_FailureIsTerminal ==
    [][\A w \in WorkerIds :
          /\ (/\ worker[w].pc \in TerminalStages
              /\ worker'[w] # worker[w]
              /\ ~worker'[w].waiting
              /\ worker'[w].err # Nil)
             => /\ worker'[w].pc = "Returned"
                /\ worker'[w].failed = worker[w].pc
                /\ Len(worker'[w].allErrors) = 1
                /\ worker'[w].refSpecs = <<>>
                /\ worker'[w].destinationBranchList = <<>>
                /\ worker'[w].destinationTagList = <<>>
                /\ remote' = remote
          /\ worker[w].pc = "Returned" =>
                [worker'[w] EXCEPT !.gitDirectory = worker[w].gitDirectory] = worker[w]]_vars

\* Fetching branches failed after the clone and the listing succeeded.
C10_Witness ==
    \E w \in WorkerIds :
        /\ worker[w].pc = "Returned"
        /\ worker[w].failed = "FetchingBranches"
        /\ worker[w].sourceBranchList # <<>>
        /\ remote[destination(w)] # remote[source(w)]

\* self recorded a failure of listing the remote url.
ListingFailed(self, url) ==
    \E i \in 1..Len(self.allErrors) :
        HasPrefix(self.allErrors[i], "Error while getting branches and tags from " \o url \o ": ")

\* The refspecs of pushing every branch of list, in order.
RECURSIVE PushBranchRefSpecs(_)
PushBranchRefSpecs(list) ==
    IF list = <<>> THEN <<>>
    ELSE <<PushBranchRefSpec(Head(list))>> \o PushBranchRefSpecs(Tail(list))

\* C11: the step in which listing the destination fails records the error,
\* leaves the destination lists empty and goes on to push the first source
\* branch (to push the tags when the source list holds no branch); a worker that recorded such a failure issues no delete refspec, and
\* when it returns it has issued the push of every source branch and the tag
\* push.
C11_DestinationListingNotTerminal ==
    [][\A w \in WorkerIds :
          LET self == worker'[w] IN
          /\ (/\ worker[w].pc = "ListingDestination"
              /\ self # worker[w]
              /\ ~self.waiting
              /\ self.err # Nil)
             => /\ self.allErrors =
                      Append(worker[w].allErrors,
                             "Error while getting branches and tags from "
                                \o destination(w) \o ": " \o self.err.msg)
                /\ self.failed = ""
                /\ self.sourceBranchList # <<>> =>
                      self.pc = "PushingBranches" /\ self.idx = 1
                /\ self.sourceBranchList = <<>> => self.pc = "PushingTags"
                /\ self.refSpecs = <<>>
          /\ (source(w) # destination(w) /\ ListingFailed(self, destination(w)))
             => /\ self.destinationBranchList = <<>>
                /\ self.destinationTagList = <<>>
                /\ \A i \in 1..Len(self.refSpecs) : ~HasPrefix(self.refSpecs[i], ":")
                /\ self.pc = "Returned" =>
                      self.refSpecs = PushBranchRefSpecs(self.sourceBranchList)
                                         \o <<PushTagsRefSpec>>]_vars

\* Listing the destination failed; branch old and tag v0 stay on the destination.
C11_Witness ==
    \E w \in WorkerIds :
        /\ ReachedDone(w)
        /\ ListingFailed(worker[w], destination(w))
        /\ worker[w].refSpecs = << PushBranchRefSpec("dev"), PushBranchRefSpec("main"),
                                   PushTagsRefSpec >>
        /\ "old" \in remote[destination(w)].branches
        /\ "v0" \in remote[destination(w)].tags

\* The elements of list that are not in other, in the order of list.
RECURSIVE Absent(_, _)
Absent(list, other) ==
    IF list = <<>> THEN <<>>
    ELSE (IF stringInSlice(Head(list), other) THEN <<>> ELSE <<Head(list)>>)
            \o Absent(Tail(list), other)

\* The refspecs MirrorRepository passes to PushRefs, in the order of its four
\* loops, for the lists self holds.
Plan(self) ==
    LET branches == Absent(self.destinationBranchList, self.sourceBranchList)
        tags == Absent(self.destinationTagList, self.sourceTagList)
    IN PushBranchRefSpecs(self.sourceBranchList)
          \o [i \in 1..Len(branches) |-> RemoveBranchRefSpec(branches[i])]
          \o <<PushTagsRefSpec>>
          \o [i \in 1..Len(tags) |-> RemoveTagRefSpec(tags[i])]

PushStages == {"PushingBranches", "RemovingBranches", "PushingTags", "RemovingTags"}

\* The refspec of the PushRefs call self is at.
CurrentRefSpec(self) ==
    CASE self.pc = "PushingBranches" -> PushBranchRefSpec(self.sourceBranchList[self.idx])
      [] self.pc = "RemovingBranches" ->
            RemoveBranchRefSpec(self.destinationBranchList[self.idx])
      [] self.pc = "PushingTags" -> PushTagsRefSpec
      [] self.pc = "RemovingTags" -> RemoveTagRefSpec(self.destinationTagList[self.idx])

\* C12: when the retry of a push or delete ends, whatever its outcome, the
\* worker has not failed, the refspecs issued so far are the first ones of the
\* plan, and the worker is at the next refspec of the plan; it returns only
\* when every refspec of the plan has been issued.
C12_RefsIsolated ==
    [][\A w \in WorkerIds :
          LET self == worker'[w]
              n == Len(self.refSpecs)
          IN (/\ worker[w].pc \in PushStages
              /\ self # worker[w]
              /\ ~self.waiting)
             => /\ self.failed = ""
                /\ n <= Len(Plan(self))
                /\ self.refSpecs = SubSeq(Plan(self), 1, n)
                /\ n < Len(Plan(self)) =>
                      self.pc \in PushStages /\ CurrentRefSpec(self) = Plan(self)[n + 1]
                /\ n = Len(Plan(self)) => self.pc = "Returned"]_vars

\* The delete of branch old exhausted its retries, and the rest of the plan
\* was issued after it.
C12_Witness ==
    \E w \in WorkerIds :
        /\ ReachedDone(w)
        /\ Len(worker[w].allErrors) = 1
        /\ HasPrefix(worker[w].allErrors[1], "Error while removing branch old from ")
        /\ HasSuffix(worker[w].allErrors[1], ": unexpected EOF")
        /\ Len(worker[w].refSpecs) = 5
        /\ worker[w].refSpecs = Plan(worker[w])
        /\ "old" \in remote[destination(w)].branches
        /\ "v0" \notin remote[destination(w)].tags

\* The workers of wk that sent their status and returned.
Returned(wk) == {w \in DOMAIN wk : wk[w].pc = "Returned"}

\* C13: the step in which a worker returns, after a failure or at the end,
\* appends its one status to the channel, and a returned worker stays
\* returned; every status sent is in the channel or was received; a receive
\* takes one status off the channel; and MirrorRepositories ends only when it
\* has received len(repos) statuses, one per worker, with the channel empty.
C13_OneStatusPerWorker ==
    [][/\ \A w \in WorkerIds :
            /\ (worker[w].pc # "Returned" /\ worker'[w].pc = "Returned")
                  => messages' = Append(messages, StatusOf(worker'[w]))
            /\ worker[w].pc = "Returned" => worker'[w].pc = "Returned"
       /\ Cardinality(Returned(worker') \ Returned(worker)) <= 1
       /\ Len(messages') + receivedResults' = Cardinality(Returned(worker'))
       /\ receivedResults' \in {receivedResults, receivedResults + 1}
       /\ receivedResults' = receivedResults + 1 => messages' = Tail(messages)
       /\ receivedResults' <= Len(repos)
       /\ pc' = "Exited" => /\ receivedResults' = Len(repos)
                            /\ messages' = <<>>
                            /\ Returned(worker') = WorkerIds]_vars

\* Two pairs: one worker failed, the other reached the end, and both statuses
\* were received.
C13_Witness ==
    /\ pc = "Exited"
    /\ Len(repos) = 2
    /\ receivedResults = 2
    /\ \E v, w \in WorkerIds : worker[v].failed = "Cloning" /\ ReachedDone(w)

\* C14: (as the specification states it) a worker that returned has deleted
\* its working directory, so when MirrorRepositories has ended no worker's
\* directory exists.
C14_NoDirectoryAtExit ==
    pc = "Exited" => \A w \in WorkerIds : worker[w].gitDirectory = "removed"

(***************************************************************************)
(* MirrorRepositories with more pairs than the channel holds.  What a      *)
(* worker does before it sends is left out (it does not touch the          *)
(* channel): a worker works, then sends its status.  Only the schedules    *)
(* in which the workers come to their send in the order of their launch,   *)
(* one after the other, are explored; each is a schedule of the program.   *)
(***************************************************************************)
\* Most pairs beyond the capacity of the channel.
MaxExtraPairs == 1

PairCounts == {1} \cup {ChannelCapacity + k : k \in 1..MaxExtraPairs}

InitChannel ==
    /\ \E n \in PairCounts :
          repos = [i \in 1..n |-> Pair("gh/" \o ToString(i), "gl/" \o ToString(i))]
    /\ ignoredErrors = <<>>
    /\ remote = [u \in URLs |-> RefSet({"main"}, {})]
    /\ faults = 0
    /\ worker = [w \in 1..Len(repos) |-> NotStarted]
    /\ messages = <<>>
    /\ pc = "Run"
    /\ launched = 0
    /\ receivedResults = 0
    /\ allErrors = <<>>
    /\ lastCloneEnd = ZeroTime
    /\ totalCloneDuration = 0
    /\ totalPushDuration = 0
    /\ exitCode = 0 - 1
    /\ test = NoTest

\* w is the first worker at stage.
FirstAt(w, stage) ==
    /\ worker[w].pc = stage
    /\ \A v \in 1..(w - 1) : worker[v].pc # stage

\* MirrorRepository up to the last statement: the worker is about to send.
Work(w) ==
    /\ Running(w)
    /\ FirstAt(w, "Cloning")
    /\ \A v \in 1..Len(repos) : worker[v].pc # "Sending"
    /\ worker' = [worker EXCEPT ![w].pc = "Sending", ![w].gitDirectory = "exists",
                                ![w].cloneEnd = worker[w].now]
    /\ UNCHANGED <<config, remote, faults, messages, pc, launched, aggregate, test>>

\* messages <- MirrorStatus{...}: blocks while the channel is full.
Send(w) ==
    /\ Running(w)
    /\ FirstAt(w, "Sending")
    /\ Commit(w, Done(worker[w]))
    /\ UNCHANGED <<config, remote, faults, pc, launched, aggregate, test>>

NextChannel ==
    \/ Run
    \/ Go
    \/ Receive
    \/ Sleep
    \/ \E w \in 1..Len(repos) : Work(w)
    \/ \E w \in 1..Len(repos) : Send(w)

SpecChannel == InitChannel /\ [][NextChannel]_vars

\* C15: (as the specification states it) a worker that is about to send its
\* status finds room in the channel, whatever the number of pairs.
C15_NoWorkerBlocks ==
    \A w \in WorkerIds : worker[w].pc = "Sending" => Len(messages) < ChannelCapacity

(***************************************************************************)
(* Test_SetRepositoryAuth: SetRepositoryAuth called on a list of pairs.    *)
(***************************************************************************)
\* Most pairs in the list passed to SetRepositoryAuth.
MaxAuthPairs == 2

\* Authentication of a side in the configuration file.
TestAuths ==
    { NoAuth,
      [Method |-> "", TokenName |-> "STALE_TOKEN"],
      [Method |-> "token", TokenName |-> "CUSTOM_TOKEN_1"],
      [Method |-> "ssh", TokenName |-> "KEY"] }

\* Authentication of a side in defaults.
TestDefaultAuths ==
    { NoAuth,
      [Method |-> "token", TokenName |-> "GITLAB_TOKEN"],
      [Method |-> "ssh", TokenName |-> "DEFAULT_KEY"] }

TestPairs ==
    {RepositoryPair(Repository("https://example.com/org-1/repo-1", a),
                    Repository("https://example.com/org-2/repo-2", b)) :
        a \in TestAuths, b \in TestAuths}

TestRepositories ==
    UNION {[1..n -> TestPairs] : n \in 0..MaxAuthPairs}

InitSetRepositoryAuth ==
    /\ repos = <<>>
    /\ ignoredErrors = <<>>
    /\ remote = [u \in URLs |-> RefSet({"main"}, {})]
    /\ faults = 0
    /\ worker = <<>>
    /\ messages = <<>>
    /\ pc = "Test_SetRepositoryAuth"
    /\ launched = 0
    /\ receivedResults = 0
    /\ allErrors = <<>>
    /\ lastCloneEnd = ZeroTime
    /\ totalCloneDuration = 0
    /\ totalPushDuration = 0
    /\ exitCode = 0 - 1
    /\ \E list \in TestRepositories, a \in TestDefaultAuths, b \in TestDefaultAuths :
          test = [repositories |-> list,
                  defaultSettings |-> RepositoryPair(Repository("", a), Repository("", b)),
                  called |-> FALSE]

\* SetRepositoryAuth(&repositories, defaultSettings); the input is kept in before.
CallSetRepositoryAuth ==
    /\ pc = "Test_SetRepositoryAuth"
    /\ ~test.called
    /\ test' = [repositories |-> SetRepositoryAuth(test.repositories, test.defaultSettings),
                defaultSettings |-> test.defaultSettings,
                called |-> TRUE,
                before |-> test.repositories]
    /\ UNCHANGED <<repos, ignoredErrors, remote, faults, worker, messages, pc, launched,
                   receivedResults, allErrors, lastCloneEnd, totalCloneDuration,
                   totalPushDuration, exitCode>>

SpecSetRepositoryAuth == InitSetRepositoryAuth /\ [][CallSetRepositoryAuth]_vars

\* What C16 says of one side: before and after the call, with the side's default.
SideAsClaimed(before, after, default) ==
    /\ after.RepositoryURL = before.RepositoryURL
    /\ before.Auth.Method = "" =>
          /\ after.Auth.Method = default.Auth.Method
          /\ default.Auth.Method = "token" =>
                after.Auth.TokenName = default.Auth.TokenName
    /\ before.Auth.Method # "" => after.Auth = before.Auth

\* C16: after SetRepositoryAuth the list has the same pairs, and in every pair
\* each side by itself has the default Method of its side if its Method was
\* empty (and the default TokenName if that Method is "token"), and is
\* unchanged if its Method was not empty.
C16_DefaultsFillEmptyMethod ==
    (pc = "Test_SetRepositoryAuth" /\ test.called) =>
        /\ Len(test.repositories) = Len(test.before)
        /\ \A i \in 1..Len(test.before) :
              /\ SideAsClaimed(test.before[i].Source, test.repositories[i].Source,
                               test.defaultSettings.Source)
              /\ SideAsClaimed(test.before[i].Destination, test.repositories[i].Destination,
                               test.defaultSettings.Destination)

\* A pair with no method on either side took the defaults, and a pair with a
\* token of its own on the source kept it.
C16_Witness ==
    /\ pc = "Test_SetRepositoryAuth" /\ test.called
    /\ Len(test.before) = 2
    /\ test.before[1].Source.Auth = NoAuth
    /\ test.before[1].Destination.Auth = NoAuth
    /\ test.repositories[1].Source.Auth = [Method |-> "token", TokenName |-> "GITLAB_TOKEN"]
    /\ test.repositories[1].Destination.Auth =
          [Method |-> "ssh", TokenName |-> ""]
    /\ test.repositories[2].Source.Auth =
          [Method |-> "token", TokenName |-> "CUSTOM_TOKEN_1"]
    /\ test.repositories[2].Destination.Auth = [Method |-> "ssh", TokenName |-> "KEY"]

\* Two configured pairs have the same destination URL.
SharedDestination ==
    \E v, w \in WorkerIds : v # w /\ destination(v) = destination(w)

\* The goroutine of pair w was started and has not returned.
Active(w) == worker[w].pc \notin {"NotStarted", "Returned"}

\* C17: when two pairs have the same destination URL no goroutine is ever
\* started and the run ends in log.Fatal (exit code 1); so two workers that
\* are running never have the same destination URL.
C17_SharedDestinationAborts ==
    /\ SharedDestination =>
          /\ pc \in {"Run", "Fatal"}
          /\ launched = 0
          /\ messages = <<>>
          /\ \A w \in WorkerIds : worker[w] = NotStarted
    /\ pc = "Fatal" => SharedDestination /\ exitCode = 1
    /\ \A v, w \in WorkerIds :
          (v # w /\ Active(v) /\ Active(w)) => destination(v) # destination(w)

\* Both pairs push to gl/b: the run was aborted.
C17_Witness ==
    /\ pc = "Fatal"
    /\ Len(repos) = 2
    /\ destination(1) = "gl/b" /\ destination(2) = "gl/b"
    /\ exitCode = 1

(***************************************************************************)
(* The authentication each call of the git client carries.  env is the     *)
(* process environment os.Getenv reads.  The Auth field of the options is  *)
(* <<>> when it is nil and <<auth>> when it points to auth.                *)
(***************************************************************************)
basicAuthUsername == "This can be any string."

BasicAuth(username, password) == [Username |-> username, Password |-> password]

\* os.Getenv: "" when the variable is not set.
Getenv(env, name) == IF name \in DOMAIN env THEN env[name] ELSE ""

\* var sourcePat string, set by os.Getenv when Method is token.
Pat(auth, env) == IF auth.Method = token THEN Getenv(env, auth.TokenName) ELSE ""

GetCloneOptions(url, sourceAuth, env) ==
    LET sourcePat == Pat(sourceAuth, env) IN
    IF sourcePat # ""
    THEN [URL |-> url, Auth |-> <<BasicAuth(basicAuthUsername, sourcePat)>>]
    ELSE [URL |-> url, Auth |-> <<>>]

GetListOptions(sourceAuth, env) ==
    LET sourcePat == Pat(sourceAuth, env) IN
    IF sourcePat # ""
    THEN [Auth |-> <<BasicAuth(basicAuthUsername, sourcePat)>>]
    ELSE [Auth |-> <<>>]

GetFetchOptions(refSpec, sourceAuth, env) ==
    LET sourcePat == Pat(sourceAuth, env) IN
    IF sourcePat # ""
    THEN [RefSpecs |-> <<refSpec>>, Auth |-> <<BasicAuth(basicAuthUsername, sourcePat)>>]
    ELSE [RefSpecs |-> <<refSpec>>, Auth |-> <<>>]

\* Returns a pointer to a BasicAuth whatever destinationPat is.
GetDestinationAuth(destAuth, env) ==
    LET destinationPat == Pat(destAuth, env) IN
    BasicAuth(basicAuthUsername, destinationPat)

TokenNames == {"", "GITHUB_TOKEN", "GITLAB_TOKEN", "UNSET_TOKEN"}

\* Authentication of a side after SetRepositoryAuth.
SideAuths ==
    {[Method |-> method, TokenName |-> name] :
        method \in {"", "token", "ssh"}, name \in TokenNames}

\* Environments: UNSET_TOKEN is never set, the other two are set, possibly to "".
Envs ==
    {[GITHUB_TOKEN |-> a, GITLAB_TOKEN |-> b] :
        a \in {"", "ghp_secret"}, b \in {"", "glpat_secret"}}

InitAuth ==
    /\ repos = <<>>
    /\ ignoredErrors = <<>>
    /\ remote = [u \in URLs |-> RefSet({"main"}, {})]
    /\ faults = 0
    /\ worker = <<>>
    /\ messages = <<>>
    /\ pc = "Auth"
    /\ launched = 0
    /\ receivedResults = 0
    /\ allErrors = <<>>
    /\ lastCloneEnd = ZeroTime
    /\ totalCloneDuration = 0
    /\ totalPushDuration = 0
    /\ exitCode = 0 - 1
    /\ \E auth \in SideAuths, env \in Envs :
          test = [auth |-> auth, env |-> env, call |-> "none", carried |-> <<>>]

\* The git client is called with carried as its Auth.
Call(name, carried) ==
    /\ pc = "Auth"
    /\ test.call # name
    /\ test' = [test EXCEPT !.call = name, !.carried = carried]
    /\ UNCHANGED <<repos, ignoredErrors, remote, faults, worker, messages, pc, launched,
                   receivedResults, allErrors, lastCloneEnd, totalCloneDuration,
                   totalPushDuration, exitCode>>

\* git.PlainClone(gitDirectory, false, GetCloneOptions(source, sourceAuthentication))
CloneCall == Call("clone", GetCloneOptions("gh/a", test.auth, test.env).Auth)

\* remote.List(GetListOptions(sourceAuthentication)) on origin
ListSourceCall == Call("list source", GetListOptions(test.auth, test.env).Auth)

\* sourceRemote.Fetch(GetFetchOptions("refs/heads/*:refs/heads/*", sourceAuthentication))
FetchCall ==
    Call("fetch", GetFetchOptions("refs/heads/*:refs/heads/*", test.auth, test.env).Auth)

\* remote.List(&git.ListOptions{Auth: destinationAuth}) on destination
ListDestinationCall ==
    Call("list destination", <<GetDestinationAuth(test.auth, test.env)>>)

\* repository.Push(&git.PushOptions{..., Auth: auth}) with a push refspec
PushCall == Call("push", <<GetDestinationAuth(test.auth, test.env)>>)

\* repository.Push(&git.PushOptions{..., Auth: auth}) with a delete refspec
DeleteCall == Call("delete", <<GetDestinationAuth(test.auth, test.env)>>)

NextAuth ==
    \/ CloneCall
    \/ ListSourceCall
    \/ FetchCall
    \/ ListDestinationCall
    \/ PushCall
    \/ DeleteCall

SpecAuth == InitAuth /\ [][NextAuth]_vars

\* C18: (as the specification states it) every call of the git client carries
\* basic auth with the secret as password when the method is token and the
\* named variable holds a non-empty secret, and no auth at all otherwise, for
\* the destination as for the source.
C18_AuthOrAnonymous ==
    (pc = "Auth" /\ test.call # "none") =>
        LET secret == IF test.auth.Method = "token"
                      THEN Getenv(test.env, test.auth.TokenName) ELSE ""
        IN /\ secret # "" =>
                 /\ Len(test.carried) = 1
                 /\ test.carried[1].Password = secret
                 /\ test.carried[1].Username # ""
           /\ secret = "" => test.carried = <<>>

(***************************************************************************)
(* GetBranchesAndTagsFromRemote on the reference lists a remote may        *)
(* return.                                                                 *)
(***************************************************************************)
\* Most references in a listing.
MaxRefs == 4

\* Reference names: HEAD, branches (one whose name starts like a tag
\* reference), tags, a pull request head.
RefNames ==
    { "HEAD", "refs/heads/main", "refs/heads/dev", "refs/heads/Dev",
      "refs/heads/refs/tags/x", "refs/tags/v1", "refs/tags/v0", "refs/pull/1/head" }

\* A remote lists each of its references once, in any order.
RefLists ==
    UNION {{l \in [1..n -> RefNames] : \A i, j \in 1..n : i # j => l[i] # l[j]} :
              n \in 0..MaxRefs}

InitListing ==
    /\ repos = <<>>
    /\ ignoredErrors = <<>>
    /\ remote = [u \in URLs |-> RefSet({"main"}, {})]
    /\ faults = 0
    /\ worker = <<>>
    /\ messages = <<>>
    /\ pc = "Listing"
    /\ launched = 0
    /\ receivedResults = 0
    /\ allErrors = <<>>
    /\ lastCloneEnd = ZeroTime
    /\ totalCloneDuration = 0
    /\ totalPushDuration = 0
    /\ exitCode = 0 - 1
    /\ \E refList \in RefLists :
          test = [refList |-> refList, called |-> FALSE]

\* The loop over refList and the sorts, after ListRemote returned refList.
CallGetBranchesAndTagsFromRemote ==
    /\ pc = "Listing"
    /\ ~test.called
    /\ LET lists == GetBranchesAndTagsFromRemote(test.refList) IN
       test' = [refList |-> test.refList, called |-> TRUE,
                branchList |-> lists.branchList, tagList |-> lists.tagList]
    /\ UNCHANGED <<repos, ignoredErrors, remote, faults, worker, messages, pc, launched,
                   receivedResults, allErrors, lastCloneEnd, totalCloneDuration,
                   totalPushDuration, exitCode>>

SpecListing == InitListing /\ [][CallGetBranchesAndTagsFromRemote]_vars

\* list ascends strictly in the order of the bytes.
StrictlySorted(list) ==
    \A i, j \in 1..Len(list) : i < j => StringLess(list[i], list[j])

\* The positions of list whose name starts with prefix.
WithPrefix(list, prefix) == {i \in 1..Len(list) : HasPrefix(list[i], prefix)}

\* C19: of the references listed, those starting with refs/heads/ and those
\* starting with refs/tags/ are disjoint; the branch list holds, once each and
\* without the prefix, exactly the former, the tag list exactly the latter,
\* every other reference is in neither; and both lists ascend, whatever the
\* order of the listing.
C19_PartitionedAndSorted ==
    (pc = "Listing" /\ test.called) =>
        LET refList == test.refList
            branches == WithPrefix(refList, "refs/heads/")
            tags == WithPrefix(refList, "refs/tags/")
        IN /\ branches \cap tags = {}
           /\ Range(test.branchList) =
                 {SubSeq(refList[i], 12, Len(refList[i])) : i \in branches}
           /\ Range(test.tagList) =
                 {SubSeq(refList[i], 11, Len(refList[i])) : i \in tags}
           /\ Len(test.branchList) = Cardinality(branches)
           /\ Len(test.tagList) = Cardinality(tags)
           /\ StrictlySorted(test.branchList)
           /\ StrictlySorted(test.tagList)

\* A listing in no order, with HEAD in it.
C19_Witness ==
    /\ pc = "Listing" /\ test.called
    /\ test.refList = <<"refs/tags/v1", "refs/heads/main", "HEAD", "refs/heads/dev">>
    /\ test.branchList = <<"dev", "main">>
    /\ test.tagList = <<"v1">>

\* The plan for the sets of names self's lists hold, whatever their order.
PlanOfSets(self) ==
    Plan([self EXCEPT !.sourceBranchList = SetToSortedSeq(Range(@)),
                      !.sourceTagList = SetToSortedSeq(Range(@)),
                      !.destinationBranchList = SetToSortedSeq(Range(@)),
                      !.destinationTagList = SetToSortedSeq(Range(@))])

\* C20: the lists a successful listing yields are those of the remote's set of
\* refs, whatever the order of the listing; once obtained they never change;
\* and the refspecs a worker issues are the first ones of the one sequence
\* that the four sets of names determine, all of it when the worker returns.
C20_Deterministic ==
    [][\A w \in WorkerIds :
          LET old == worker[w]
              self == worker'[w]
              n == Len(self.refSpecs)
          IN /\ (old.pc = "ListingSource" /\ self.pc = "FetchingBranches") =>
                   /\ self.sourceBranchList = SetToSortedSeq(remote[source(w)].branches)
                   /\ self.sourceTagList = SetToSortedSeq(remote[source(w)].tags)
             /\ (/\ old.pc = "ListingDestination"
                 /\ self.pc # "ListingDestination"
                 /\ self.err = Nil) =>
                   /\ self.destinationBranchList =
                         SetToSortedSeq(remote[destination(w)].branches)
                   /\ self.destinationTagList =
                         SetToSortedSeq(remote[destination(w)].tags)
             /\ old.pc \notin {"NotStarted", "Cloning", "ListingSource"} =>
                   /\ self.sourceBranchList = old.sourceBranchList
                   /\ self.sourceTagList = old.sourceTagList
             /\ old.pc \in PushStages \cup {"Returned"} =>
                   /\ self.destinationBranchList = old.destinationBranchList
                   /\ self.destinationTagList = old.destinationTagList
             /\ self.refSpecs # old.refSpecs =>
                   /\ n <= Len(PlanOfSets(self))
                   /\ self.refSpecs = SubSeq(PlanOfSets(self), 1, n)
             /\ (old.pc # "Returned" /\ self.pc = "Returned" /\ self.failed = "") =>
                   self.refSpecs = PlanOfSets(self)]_vars

\* Source {main, old}/{v0, v1}, destination {dev, main}/{v1}.
C20_Witness ==
    \E w \in WorkerIds :
        /\ ReachedDone(w)
        /\ worker[w].sourceTagList = <<"v0", "v1">>
        /\ worker[w].destinationBranchList = <<"dev", "main">>
        /\ worker[w].refSpecs =
              << PushBranchRefSpec("main"), PushBranchRefSpec("old"),
                 RemoveBranchRefSpec("dev"), PushTagsRefSpec >>

(***************************************************************************)
(* The states of a worker as the specification names them.                 *)
(***************************************************************************)
States ==
    << "Cloning", "ListingSource", "FetchingBranches", "CreatingDestinationRemote",
       "ListingDestination", "Pushing", "Deleting", "Done" >>

\* The state worker record self is in: the two push loops are Pushing, the two
\* delete loops are Deleting, the return at the end is Done.
StateOf(self) ==
    CASE self.pc \in {"PushingBranches", "PushingTags"} -> "Pushing"
      [] self.pc \in {"RemovingBranches", "RemovingTags"} -> "Deleting"
      [] self.pc = "Returned" -> IF self.failed = "" THEN "Done" ELSE "Failed"
      [] OTHER -> self.pc

Position(state) == CHOOSE i \in 1..Len(States) : States[i] = state

\* self has no branch and no tag to delete.
NothingToDelete(self) ==
    /\ Absent(self.destinationBranchList, self.sourceBranchList) = <<>>
    /\ Absent(self.destinationTagList, self.sourceTagList) = <<>>

\* C21: (as the specification states it) a worker without a terminal failure
\* never goes back to a state it has left and goes from each state to the one
\* after it (from Pushing to Done when it has nothing to delete); and it has
\* issued no refspec before the fetch succeeded and the destination listing
\* ended.
C21_StatesInOrder ==
    [][\A w \in WorkerIds :
          LET a == StateOf(worker[w])
              b == StateOf(worker'[w])
          IN /\ (a \in Range(States) /\ b \in Range(States) /\ a # b) =>
                   \/ Position(b) = Position(a) + 1
                   \/ a = "Pushing" /\ b = "Done" /\ NothingToDelete(worker'[w])
             /\ worker'[w].refSpecs # <<>> =>
                   /\ worker'[w].cloneEnd # ZeroTime
                   /\ b \in {"Pushing", "Deleting", "Done"}]_vars

\* refSpec deletes a ref: its source part is empty.
IsDelete(refSpec) == HasPrefix(refSpec, ":")

\* C22: (as the specification states it) when a worker issues a delete
\* refspec, it has issued the push of every source branch and the wildcard
\* push of the tags before.
C22_DeletesAfterPushes ==
    \A w \in WorkerIds :
        LET self == worker[w] IN
        \A i \in 1..Len(self.refSpecs) :
            IsDelete(self.refSpecs[i]) =>
               /\ \E j \in 1..(i - 1) : self.refSpecs[j] = PushTagsRefSpec
               /\ \A k \in 1..Len(self.sourceBranchList) :
                     \E j \in 1..(i - 1) :
                        self.refSpecs[j] = PushBranchRefSpec(self.sourceBranchList[k])

\* The verdict of MirrorRepositories has been issued: the process exited with
\* a code, and not by the log.Fatal of ValidateRepositories.
VerdictIssued == pc = "Exited" \/ (exitCode # 0 - 1 /\ pc # "Fatal")

\* C23: while fewer statuses than configured pairs have been received, no
\* verdict has been issued; and when it has been issued, every worker has sent
\* its status and the channel is empty.
C23_VerdictAfterAllStatuses ==
    /\ receivedResults < Len(repos) => ~VerdictIssued
    /\ VerdictIssued =>
          /\ receivedResults = Len(repos)
          /\ messages = <<>>
          /\ \A w \in WorkerIds : worker[w].pc = "Returned"

\* Two pairs: the first status received carried an error, the second worker
\* is still at work, and MirrorRepositories is still receiving.
C23_Witness ==
    /\ Len(repos) = 2
    /\ pc = "Receiving"
    /\ receivedResults = 1
    /\ Len(allErrors) > 0
    /\ exitCode = 0 - 1
    /\ \E w \in WorkerIds : Active(w)

(***************************************************************************)
(* Scheduling.  The Go scheduler runs every runnable goroutine, and each   *)
(* call of the git client returns: a step of the main goroutine or of a    *)
(* worker that stays possible is taken (weak fairness).  The default case  *)
(* of the receive loop (Sleep) needs no fairness.                          *)
(*                                                                         *)
(* For the workers the fairness condition is written in its expanded form: *)
(* WF_vars(A) is []<>(~ENABLED <<A>>_vars) \/ []<><<A>>_vars, where for A  *)
(* the steps of worker w, ENABLED <<A>>_vars is CanStep(w) and <<A>>_vars  *)
(* is WorkerStep(w).                                                       *)
(***************************************************************************)
\* The indices a pair can have in a configuration of the model.
PairIds == UNION {DOMAIN s.repos : s \in Scenarios}

\* Worker w has a step to take: it runs a stage of MirrorRepository (every
\* call returns with some outcome; its send needs room in the channel), or it
\* has returned and its deferred os.RemoveAll is due.
CanStep(w) ==
    /\ w \in WorkerIds
    /\ Running(w)
    /\ \/ worker[w].pc # "Returned"
       \/ worker[w].gitDirectory = "exists"
    /\ Len(messages) < ChannelCapacity

\* A step of worker w's goroutine.
WorkerStep(w) ==
    /\ w \in WorkerIds
    /\ Running(w)
    /\ worker'[w] # worker[w]

FairSpec ==
    /\ Spec
    /\ WF_vars(Run \/ Go \/ Receive)
    /\ \A w \in PairIds : []<>(~CanStep(w)) \/ []<><<WorkerStep(w)>>_vars

\* C24: (as the specification states it) once MirrorRepositories runs, for
\* any list of pairs, it eventually leaves the receive loop and reports its
\* verdict.
C24_LeavesReceiveLoop == (pc \in {"Launching", "Receiving"}) ~> (pc = "Exited")

\* C25: every started worker eventually sends its status and returns.
C25_WorkerCompletes ==
    \A w \in PairIds :
        (w \in WorkerIds /\ worker[w].pc = "Cloning")
            ~> (w \in WorkerIds /\ worker[w].pc = "Returned")

\* Two pairs: one worker returned when the retry of its fetch had used up its
\* budget, the other ran to the end.
C25_Witness ==
    /\ Len(repos) = 2
    /\ \E v, w \in WorkerIds :
          /\ worker[v].pc = "Returned"
          /\ worker[v].failed = "FetchingBranches"
          /\ worker[v].err \in TransientErrors
          /\ worker[v].attempts = 2
          /\ ReachedDone(w)

\* C26: the launch loop starts one goroutine per pair, in the order of the
\* pairs, each with the URLs and the auth settings of its pair; it can start
\* the next one whatever the others are doing; and no status is received
\* before every goroutine has been started.
C26_EagerLaunch ==
    /\ launched <= Len(repos)
    /\ \A w \in WorkerIds : worker[w].pc # "NotStarted" <=> w <= launched
    /\ \A w \in 1..launched :
          /\ worker[w].source = repos[w].Source.RepositoryURL
          /\ worker[w].destination = repos[w].Destination.RepositoryURL
          /\ worker[w].sourceAuthentication = repos[w].Source.Auth
          /\ worker[w].destinationAuthentication = repos[w].Destination.Auth
    /\ pc = "Launching" => /\ launched < Len(repos)
                           /\ ENABLED Go
    /\ launched < Len(repos) => receivedResults = 0
    /\ pc \in {"Receiving", "Exited"} => launched = Len(repos)

\* Two pairs with different sources: both goroutines are at work at once and
\* no status has been received.
C26_Witness ==
    /\ Len(repos) = 2
    /\ launched = 2
    /\ receivedResults = 0
    /\ messages = <<>>
    /\ worker[1].source = "gh/a"
    /\ worker[2].source = "gl/a"
    /\ worker[1].pc = "PushingBranches"
    /\ worker[2].pc = "FetchingBranches"

\* The statuses sent by the first n workers, in the order of the pairs.
RECURSIVE SentBy(_, _)
SentBy(wk, n) ==
    IF n = 0 THEN <<>>
    ELSE SentBy(wk, n - 1)
            \o (IF wk[n].pc = "Returned" THEN <<StatusOf(wk[n])>> ELSE <<>>)

\* The aggregate of a list of statuses: every error, the latest LastCloneEnd
\* (time.Time{} for none), the sums of the durations.
RECURSIVE Aggregate(_)
Aggregate(statuses) ==
    IF statuses = <<>>
    THEN [allErrors |-> <<>>, lastCloneEnd |-> ZeroTime,
          totalCloneDuration |-> 0, totalPushDuration |-> 0]
    ELSE LET rest == Aggregate(Tail(statuses))
             msg == Head(statuses)
         IN [allErrors |-> msg.Errors \o rest.allErrors,
             lastCloneEnd |-> IF rest.lastCloneEnd < msg.LastCloneEnd
                              THEN msg.LastCloneEnd ELSE rest.lastCloneEnd,
             totalCloneDuration |-> msg.CloneDuration + rest.totalCloneDuration,
             totalPushDuration |-> msg.PushDuration + rest.totalPushDuration]

\* The number of times x occurs in list.
Count(list, x) == Cardinality({i \in 1..Len(list) : list[i] = x})

\* a and b hold the same elements, each as many times.
SameElements(a, b) ==
    /\ Len(a) = Len(b)
    /\ \A x \in Range(a) : Count(a, x) = Count(b, x)

\* C27: whatever the order in which the statuses arrived, what
\* MirrorRepositories has aggregated together with what waits in the channel
\* is the aggregate of the statuses of the workers that returned, taken in the
\* order of the pairs: the same errors, each as often as the workers recorded
\* it, the latest clone end, the sums of the durations; at the end this is the
\* aggregate of all workers' statuses, and the exit code is its verdict.
C27_AggregateIndependentOfOrder ==
    LET sent == Aggregate(SentBy(worker, Len(worker)))
        waiting == Aggregate(messages)
    IN /\ SameElements(allErrors \o waiting.allErrors, sent.allErrors)
       /\ sent.lastCloneEnd = IF lastCloneEnd < waiting.lastCloneEnd
                              THEN waiting.lastCloneEnd ELSE lastCloneEnd
       /\ totalCloneDuration + waiting.totalCloneDuration = sent.totalCloneDuration
       /\ totalPushDuration + waiting.totalPushDuration = sent.totalPushDuration
       /\ pc = "Exited" =>
             /\ SameElements(allErrors, sent.allErrors)
             /\ lastCloneEnd = sent.lastCloneEnd
             /\ totalCloneDuration = sent.totalCloneDuration
             /\ totalPushDuration = sent.totalPushDuration
             /\ exitCode = ExitCode(sent.allErrors)

\* Two pairs whose statuses arrived in the order opposite to that of the
\* pairs, each with its own error.
C27_Witness ==
    /\ pc = "Exited"
    /\ Len(repos) = 2
    /\ worker[1].allErrors # <<>>
    /\ worker[2].allErrors # <<>>
    /\ worker[1].allErrors # worker[2].allErrors
    /\ allErrors = worker[2].allErrors \o worker[1].allErrors

\* What MirrorRepositories aggregates from the statuses it receives.
received ==
    <<receivedResults, allErrors, lastCloneEnd, totalCloneDuration, totalPushDuration>>

\* C28: a step of a started worker changes no other worker's record (its
\* errors, its lists, its directory), nothing MirrorRepositories aggregates
\* and not the configured pairs; the aggregate changes only in a step that
\* takes one status off the channel and changes no worker; the pairs change
\* only before the launch, in Run.
C28_NoSharedState ==
    [][/\ \A w \in WorkerIds :
            (worker[w].pc # "NotStarted" /\ worker'[w] # worker[w])
               => /\ \A v \in WorkerIds \ {w} : worker'[v] = worker[v]
                  /\ received' = received
                  /\ repos' = repos
                  /\ pc' = pc
       /\ received' # received
             => /\ worker' = worker
                /\ messages' = Tail(messages)
                /\ receivedResults' = receivedResults + 1
       /\ repos' # repos => pc = "Run" /\ worker' = worker]_vars

\* Two workers at work at once: the first has recorded an error and holds the
\* destination's lists, the second has recorded none and holds its own lists
\* and directory.
C28_Witness ==
    /\ Len(repos) = 2
    /\ worker[1].pc = "PushingTags"
    /\ worker[1].allErrors # <<>>
    /\ worker[1].destinationBranchList # <<>>
    /\ worker[2].pc = "PushingBranches"
    /\ worker[2].allErrors = <<>>
    /\ worker[2].sourceBranchList # <<>>
    /\ worker[2].gitDirectory = "exists"
    /\ received = <<0, <<>>, ZeroTime, 0, 0>>

\* refSpec pushes refs: its source part is not empty.
IsPush(refSpec) == HasPrefix(refSpec, "+")

\* C29: a worker starts the push of a source branch at most once and the
\* wildcard push of the tags at most once, and starts no other push; when it
\* has run to its end it has started the push of every source branch, with
\* the refspec +refs/heads/<b>:refs/heads/<b>, and the one wildcard push of
\* the tags, whatever the tags of the source and the outcomes of the pushes.
C29_OnePushPerBranchOneForTags ==
    \A w \in WorkerIds :
        LET self == worker[w]
            pushes == {i \in 1..Len(self.refSpecs) : IsPush(self.refSpecs[i])}
        IN /\ \A i \in pushes :
                 \/ self.refSpecs[i] = "+refs/tags/*:refs/tags/*"
                 \/ \E k \in 1..Len(self.sourceBranchList) :
                       self.refSpecs[i] =
                          "+refs/heads/" \o self.sourceBranchList[k]
                             \o ":refs/heads/" \o self.sourceBranchList[k]
           /\ \A i, j \in pushes : self.refSpecs[i] = self.refSpecs[j] => i = j
           /\ ReachedDone(w) =>
                 Cardinality(pushes) = Len(self.sourceBranchList) + 1

\* The source has no tag and the push of its branch failed: the worker ran to
\* its end and started the wildcard push of the tags.
C29_Witness ==
    \E w \in WorkerIds :
        /\ ReachedDone(w)
        /\ worker[w].sourceTagList = <<>>
        /\ worker[w].sourceBranchList = <<"main">>
        /\ \E i \in 1..Len(worker[w].allErrors) :
              HasPrefix(worker[w].allErrors[i], "Error while pushing branch main to ")
        /\ Count(worker[w].refSpecs, PushTagsRefSpec) = 1
        /\ Count(worker[w].refSpecs, PushBranchRefSpec("main")) = 1

\* The clone and push durations of those of the first n workers that ran to
\* the end of MirrorRepository, summed.
RECURSIVE CompletedDurations(_, _)
CompletedDurations(wk, n) ==
    IF n = 0 THEN [clone |-> 0, push |-> 0]
    ELSE LET rest == CompletedDurations(wk, n - 1) IN
         IF wk[n].pc = "Returned" /\ wk[n].failed = ""
         THEN [clone |-> rest.clone + wk[n].cloneDuration,
               push |-> rest.push + wk[n].pushDuration]
         ELSE rest

\* C30: the status a worker sends when a terminal stage failed carries one
\* error, that of the failed stage, and clone and push durations of zero; so
\* the durations MirrorRepositories has summed, with those waiting in the
\* channel, are those of the workers that ran to the end.
C30_FailedStatus ==
    [][/\ \A w \in WorkerIds :
            (/\ worker[w].pc # "Returned"
             /\ worker'[w].pc = "Returned"
             /\ worker'[w].failed # "")
               => /\ worker'[w].failed \in TerminalStages
                  /\ Len(messages') = Len(messages) + 1
                  /\ LET msg == Last(messages') IN
                     /\ Len(msg.Errors) = 1
                     /\ HasPrefix(msg.Errors[1], "Error while ")
                     /\ HasSuffix(msg.Errors[1], ": " \o worker'[w].clientErr.msg)
                     /\ worker'[w].clientErr \notin {Nil, NoErrAlreadyUpToDate}
                     /\ msg.CloneDuration = 0
                     /\ msg.PushDuration = 0
       /\ LET completed == CompletedDurations(worker', Len(worker'))
              waiting == Aggregate(messages')
          IN /\ totalCloneDuration' + waiting.totalCloneDuration = completed.clone
             /\ totalPushDuration' + waiting.totalPushDuration = completed.push]_vars

\* The creation of the destination remote failed after a clone that took
\* time: the worker's status was received and nothing was added to the sums.
C30_Witness ==
    /\ pc = "Exited"
    /\ \E w \in WorkerIds :
          /\ worker[w].failed = "CreatingDestinationRemote"
          /\ worker[w].cloneDuration > 0
          /\ Len(worker[w].allErrors) = 1
    /\ totalCloneDuration = 0
    /\ totalPushDuration = 0
    /\ Len(allErrors) = 1

\* The stages that run an operation under backoff.Retry.
RetriedStages ==
    {"Cloning", "ListingSource", "FetchingBranches", "ListingDestination"} \cup PushStages

\* MaxElapsedTime of the backoff created at the stage: 2 minutes for the clone
\* and for the push of a branch, 1 minute for the others.
BudgetOf(stage) ==
    IF stage \in {"Cloning", "PushingBranches"} THEN 2 * TicksPerMinute
    ELSE TicksPerMinute

\* C31: the first invocation of every retried operation starts with no time
\* elapsed and the budget of its stage, whatever the operations before it
\* used up; a generic error is retried while the operation's own elapsed time
\* is within that budget, and given up only when its own next wait would
\* exceed it.
C31_FreshBudget ==
    [][\A w \in WorkerIds :
          LET old == worker[w]
              self == worker'[w]
              budget == BudgetOf(old.pc)
          IN (/\ old.pc \in RetriedStages
              /\ self # old
              /\ self.attempts # 0)
             => /\ self.maxElapsedTime = budget
                /\ self.attempts = IF old.waiting THEN old.attempts + 1 ELSE 1
                /\ self.elapsed = (IF old.waiting THEN old.elapsed ELSE 0)
                                     + (IF self.waiting THEN 1 ELSE 0)
                /\ self.elapsed = self.attempts - (IF self.waiting THEN 0 ELSE 1)
                /\ self.clientErr.id = "error" =>
                      (self.waiting <=> self.attempts <= budget)
                /\ self.clientErr.id # "error" => ~self.waiting]_vars

\* The push of branch old used up its budget, and the delete after it was
\* still retried: its second invocation succeeded.
C31_Witness ==
    \E w \in WorkerIds :
        /\ worker[w].pc = "PushingTags"
        /\ \E i \in 1..Len(worker[w].allErrors) :
              /\ HasPrefix(worker[w].allErrors[i], "Error while pushing branch old to ")
              /\ HasSuffix(worker[w].allErrors[i], ": reference not found")
        /\ IsDelete(Last(worker[w].refSpecs))
        /\ worker[w].attempts = 2
        /\ worker[w].err = Nil

\* The source and destination URLs of the pairs of list.
PairURLs(list) ==
    [i \in 1..Len(list) |->
        <<list[i].Source.RepositoryURL, list[i].Destination.RepositoryURL>>]

\* The remotes at the start of the run of the pairs list (several pairs).
InitialRemote(list) ==
    (CHOOSE s \in ManyPairScenarios : PairURLs(s.repos) = PairURLs(list)).remote

\* The remotes after the pairs of list were mirrored one after another, each
\* completely: the destination of a pair gets the refs of its source.
RECURSIVE OneAfterAnother(_, _)
OneAfterAnother(list, r) ==
    IF list = <<>> THEN r
    ELSE OneAfterAnother(Tail(list),
                         [r EXCEPT ![Head(list).Destination.RepositoryURL] =
                                      r[Head(list).Source.RepositoryURL]])

\* C32: (as the specification states it) when a run of several pairs that
\* passed ValidateRepositories has ended without an error, the remotes are
\* those that mirroring the pairs one after another yields, whatever the
\* interleaving of the workers.
C32_InterleavingIndependent ==
    (pc = "Exited" /\ Len(repos) > 1 /\ allErrors = <<>>)
        => remote = OneAfterAnother(repos, InitialRemote(repos))

\* C33: in the step in which a worker sends a status without errors, while no
\* other pair writes to its source or its destination, the worker has run to
\* the end and the destination holds exactly the branches and the tags of the
\* source; and when the run ends with exit code 0 and no pair writes to
\* another pair's repositories, every destination holds exactly the refs of
\* its source.
C33_NoErrorsMeansCopy ==
    [][/\ \A w \in WorkerIds :
            (/\ worker[w].pc # "Returned"
             /\ worker'[w].pc = "Returned"
             /\ Last(messages').Errors = <<>>
             /\ Undisturbed(w))
               => /\ worker'[w].failed = ""
                  /\ remote'[destination(w)] = remote'[source(w)]
       /\ (/\ pc' = "Exited"
           /\ exitCode' = 0
           /\ \A w \in WorkerIds : Undisturbed(w))
             => \A w \in WorkerIds : remote'[destination(w)] = remote'[source(w)]]_vars

\* A run of one pair ended with exit code 0 although two calls had failed and
\* were retried: the destination lost its branch old and its tag v0 and holds
\* what the source holds.
C33_Witness ==
    /\ pc = "Exited"
    /\ exitCode = 0
    /\ faults = 2
    /\ Len(repos) = 1
    /\ stringInSlice(RemoveBranchRefSpec("old"), worker[1].refSpecs)
    /\ stringInSlice(RemoveTagRefSpec("v0"), worker[1].refSpecs)
    /\ remote[destination(1)] = remote[source(1)]

(***************************************************************************)
(* SetRepositoryAuth called twice with the same defaults on a list whose   *)
(* pairs have URLs of their own.                                           *)
(***************************************************************************)
\* "https://example.com/org-1/repo-1", "https://example.com/org-2/repo-2", ...
TestURL(k) == "https://example.com/org-" \o ToString(k) \o "/repo-" \o ToString(k)

\* Lists of up to MaxAuthPairs pairs; pair i has the URLs 2i - 1 and 2i.
TestRepositoriesWithURLs ==
    UNION { { [i \in 1..n |->
                 RepositoryPair(Repository(TestURL(2 * i - 1), auths[i][1]),
                                Repository(TestURL(2 * i), auths[i][2]))] :
              auths \in [1..n -> TestAuths \X TestAuths] } :
            n \in 0..MaxAuthPairs }

InitSetRepositoryAuthTwice ==
    /\ repos = <<>>
    /\ ignoredErrors = <<>>
    /\ remote = [u \in URLs |-> RefSet({"main"}, {})]
    /\ faults = 0
    /\ worker = <<>>
    /\ messages = <<>>
    /\ pc = "Test_SetRepositoryAuth"
    /\ launched = 0
    /\ receivedResults = 0
    /\ allErrors = <<>>
    /\ lastCloneEnd = ZeroTime
    /\ totalCloneDuration = 0
    /\ totalPushDuration = 0
    /\ exitCode = 0 - 1
    /\ \E list \in TestRepositoriesWithURLs, a \in TestDefaultAuths, b \in TestDefaultAuths :
          test = [repositories |-> list,
                  defaultSettings |-> RepositoryPair(Repository("", a), Repository("", b)),
                  called |-> FALSE]

\* SetRepositoryAuth(&repositories, defaultSettings) a second time; the result
\* of the first call is kept in once.
CallSetRepositoryAuthAgain ==
    /\ pc = "Test_SetRepositoryAuth"
    /\ test.called
    /\ "once" \notin DOMAIN test
    /\ test' = [repositories |-> SetRepositoryAuth(test.repositories, test.defaultSettings),
                defaultSettings |-> test.defaultSettings,
                called |-> TRUE,
                before |-> test.before,
                once |-> test.repositories]
    /\ UNCHANGED <<repos, ignoredErrors, remote, faults, worker, messages, pc, launched,
                   receivedResults, allErrors, lastCloneEnd, totalCloneDuration,
                   totalPushDuration, exitCode>>

NextSetRepositoryAuthTwice == CallSetRepositoryAuth \/ CallSetRepositoryAuthAgain

SpecSetRepositoryAuthTwice ==
    InitSetRepositoryAuthTwice /\ [][NextSetRepositoryAuthTwice]_vars

\* after is before with other Auth fields at most.
OnlyAuthChanged(before, after) ==
    /\ DOMAIN after = DOMAIN before
    /\ after.RepositoryURL = before.RepositoryURL
    /\ DOMAIN after.Auth = DOMAIN before.Auth

\* C34: after SetRepositoryAuth the list has as many pairs, each at its place
\* with its URLs, only Auth fields being changed; and a second call with the
\* same defaults leaves the list as the first call left it.
C34_IdempotentAuthOnly ==
    (pc = "Test_SetRepositoryAuth" /\ test.called) =>
        /\ Len(test.repositories) = Len(test.before)
        /\ \A i \in 1..Len(test.before) :
              /\ OnlyAuthChanged(test.before[i].Source, test.repositories[i].Source)
              /\ OnlyAuthChanged(test.before[i].Destination,
                                 test.repositories[i].Destination)
        /\ "once" \in DOMAIN test => test.repositories = test.once

\* The second call was made on two pairs, the first of which took defaults at
\* the first call.
C34_Witness ==
    /\ pc = "Test_SetRepositoryAuth" /\ test.called
    /\ "once" \in DOMAIN test
    /\ Len(test.before) = 2
    /\ test.before[1].Source.Auth = [Method |-> "", TokenName |-> "STALE_TOKEN"]
    /\ test.once[1].Source.Auth = [Method |-> "token", TokenName |-> "GITLAB_TOKEN"]
    /\ test.once # test.before
    /\ test.repositories[2].Destination.RepositoryURL = "https://example.com/org-4/repo-4"

\* C35: after SetRepositoryAuth a side whose Method was empty has the default
\* Authentication of its side, Method and TokenName, whatever the default
\* Method is and whatever TokenName the side had.
C35_ExactDefault ==
    (pc = "Test_SetRepositoryAuth" /\ test.called) =>
        \A i \in 1..Len(test.before) :
            /\ test.before[i].Source.Auth.Method = "" =>
                  test.repositories[i].Source.Auth = test.defaultSettings.Source.Auth
            /\ test.before[i].Destination.Auth.Method = "" =>
                  test.repositories[i].Destination.Auth =
                      test.defaultSettings.Destination.Auth

\* Two pairs of list have the same destination URL.
DuplicateDestination(list) ==
    \E i, j \in 1..Len(list) :
        i # j /\ list[i].Destination.RepositoryURL = list[j].Destination.RepositoryURL

\* C36: the step of Run that validates the list ends in log.Fatal exactly when
\* two pairs have the same destination URL; otherwise, warned pairs or not,
\* the run goes on to MirrorRepositories without an exit code, and in both
\* cases the list keeps all its pairs with their URLs, each at its place.
C36_OnlyDuplicateDestinationAborts ==
    [][pc = "Run" =>
          /\ PairURLs(repos') = PairURLs(repos)
          /\ (pc' = "Fatal") <=> DuplicateDestination(repos)
          /\ ~DuplicateDestination(repos) =>
                /\ pc' \in {"Launching", "Receiving"}
                /\ exitCode' = exitCode
                /\ \A i \in 1..Len(repos) :
                      Warned(repos, i) =>
                          /\ source(i)' = source(i)
                          /\ destination(i)' = destination(i)]_vars

\* The second pair, gh/a to gl/b, was warned about and mirrored all the same:
\* the run ended with exit code 0 and gl/b has the refs of gh/a.
C36_Witness ==
    /\ pc = "Exited"
    /\ exitCode = 0
    /\ Len(repos) = 2
    /\ ~DuplicateDestination(repos)
    /\ ~Warned(repos, 1)
    /\ Warned(repos, 2)
    /\ source(2) = "gh/a" /\ destination(2) = "gl/b"
    /\ worker[2].pc = "Returned"
    /\ remote["gl/b"] = remote["gh/a"]
====
